---- MODULE Spec2Model ----
(***************************************************************************)
(* A model of squattr: the attribute grammar (core/src/ast.rs), the typed  *)
(* conversion layer (core/src/types.rs), error aggregation                 *)
(* (core/src/errors.rs), the "did you mean" suggestion (core/src/dym.rs)   *)
(* and the binding procedure from_values that   core/src/expand.rs         *)
(* generates for a record with named fields.                               *)
(*                                                                         *)
(* Locations (proc_macro2::Span) are modelled as paths of naturals: the    *)
(* i-th top-level value sits at <<i>>, the j-th value below a value at s   *)
(* sits at Append(s, j), and a Values sequence   starts at the location of *)
(* its first value (Append(s, 0) when it is empty).                        *)
(*                                                                         *)
(* A syn::Error is modelled as the non-empty sequence of its               *)
(* (location, message) entries; a message is the tuple of the pieces that  *)
(* format! joins, without the backquotes it puts around names.             *)
(***************************************************************************)
EXTENDS Integers, Sequences, FiniteSets, TLC

VARIABLES
    \* from_values
    pc,           \* where from_values stands: "scan", "combine" or "done"
    input,        \* the top-level values the for loop has taken so far
    slots,        \* the generated let mut <field> variables: field name -> Option
    errors,       \* the generated let mut errors vector
    result,       \* what from_values returned
    \* ErrorsExt::combine
    diagnostics,  \* the vector combine is called on
    combined,     \* what combine returned
    \* did_you_mean
    optionsArg,   \* the options argument
    givenArg,     \* the given argument
    scoreOf,      \* a similarity given as a table, option -> score
    suggestion,   \* what did_you_mean returned
    \* Values::parse on the top-level stream
    tokens,       \* the token stream
    cursor,       \* the position of the stream's cursor
    alternative,  \* the alternative Value::parse tries next, or what follows
    fork,         \* the last try_parse: its start, its fork's end position
    parsed,       \* the values parsed so far
    outcome,      \* what Values::parse returned
    \* ParseValueExt::parse::<T> on one value
    convTy,       \* the target type T
    convValue,    \* the value
    convBy,       \* the crate whose impl ParseValue for T is called
    convResult,   \* what parse returned
    \* expand
    declaration,  \* the DeriveInput
    expanded,     \* what expand returned
    \* from_values on the same values in two orders
    permValues,   \* the values
    permOrder,    \* the order they are given in the second time
    permBound,    \* what from_values returned on the values
    permRebound,  \* what from_values returned on the values in the other order
    \* Attribute::extract_from_attributes
    attrsGiven,   \* the attributes vector before the call
    attributes,   \* the attributes vector
    attrPath,     \* the path argument
    extracted     \* what extract_from_attributes returned

bindVars == <<pc, input, slots, errors, result>>

combineVars == <<diagnostics, combined>>

dymVars == <<optionsArg, givenArg, scoreOf, suggestion>>

parseVars == <<tokens, cursor, alternative, fork, parsed, outcome>>

convertVars == <<convTy, convValue, convBy, convResult>>

expandVars == <<declaration, expanded>>

permuteVars == <<permValues, permOrder, permBound, permRebound>>

extractVars == <<attrsGiven, attributes, attrPath, extracted>>

vars == <<bindVars, combineVars, dymVars, parseVars, convertVars, expandVars,
          permuteVars, extractVars>>

(***************************************************************************)
(* Bounds of the model.                                                    *)
(***************************************************************************)
MaxValues == 4

MaxErrors == 3

MaxOptions == 3

MaxElems == 3

MaxNested == 2

MaxFields == 2

MaxTokens == 4

MaxPermuted == 3

MaxAttributes == 3

\* the sequences over S of length at most n
BoundedSeq(S, n) == UNION {[1..k -> S] : k \in 0..n}

(***************************************************************************)
(* std::option::Option                                                     *)
(***************************************************************************)
None == [some |-> FALSE]

Some(x) == [some |-> TRUE, val |-> x]

Min(a, b) == IF a < b THEN a ELSE b

Max(a, b) == IF a < b THEN b ELSE a

Last(s) == s[Len(s)]

(***************************************************************************)
(* core/src/ast.rs: the Value AST.                                         *)
(***************************************************************************)
LitInt(neg, digits) == [kind |-> "Int", neg |-> neg, digits |-> digits]

\* A LitFloat: the digits before the point and those after it (none for a
\* literal such as 1f32, whose base10_digits are whole).
LitFloat(neg, whole, frac) ==
    [kind |-> "Float", neg |-> neg, digits |-> whole, frac |-> frac]

LitStr(s) == [kind |-> "Str", s |-> s]

LitBool(b) == [kind |-> "Bool", b |-> b]

Expr(id, v) == [kind |-> "Expr", ident |-> id, value |-> v]

Ident(id) == [kind |-> "Ident", ident |-> id]

List(id, vs) == [kind |-> "List", ident |-> id, values |-> vs]

Lit(l) == [kind |-> "Lit", lit |-> l]

\* Value::identifier
identifier(value) ==
    CASE value.kind = "Expr"  -> Some(value.ident)
      [] value.kind = "Ident" -> Some(value.ident)
      [] value.kind = "List"  -> Some(value.ident)
      [] value.kind = "Lit"   -> None

\* The location of the j-th value below the value at span.
ChildSpan(span, j) == Append(span, j)

\* Values::span: the location of the stream when parsing started, which is
\* that of its first value; an empty stream reports its enclosing scope.
ValuesSpan(base, n) == IF n > 0 THEN ChildSpan(base, 1) ELSE ChildSpan(base, 0)

(***************************************************************************)
(* syn::Error and core/src/errors.rs.                                      *)
(***************************************************************************)
\* Error::new(span, message)
NewError(span, msg) == << [span |-> span, msg |-> msg] >>

\* syn::Error::combine: the other error's messages are appended.
ErrorCombine(acc, next) == acc \o next

RECURSIVE Fold(_, _)
\* rest.iter().fold(first, |acc, next| { acc.combine(next.clone()); acc })
Fold(acc, rest) ==
    IF rest = << >> THEN acc
    ELSE Fold(ErrorCombine(acc, Head(rest)), Tail(rest))

\* combine, were the fold to start after the second error.
combine_skipsOne(errs) ==
    IF Len(errs) = 0 THEN None
    ELSE Some(Fold(errs[1], SubSeq(errs, 3, Len(errs))))

\* ErrorsExt::combine
combine(errs) ==
    IF Len(errs) = 0 THEN None
    ELSE Some(Fold(errs[1], SubSeq(errs, 2, Len(errs))))

(***************************************************************************)
(* core/src/dym.rs.  The similarity is strsim's jaro_winkler, computed     *)
(* here on exact fractions [num, den] where the crate computes in f64.     *)
(***************************************************************************)
\* The characters of the strings the model uses (a &str as its chars).
Chars(s) ==
    CASE s = "count"        -> <<"c", "o", "u", "n", "t">>
      [] s = "name"         -> <<"n", "a", "m", "e">>
      [] s = "tags"         -> <<"t", "a", "g", "s">>
      [] s = "enabled"      -> <<"e", "n", "a", "b", "l", "e", "d">>
      [] s = "note"         -> <<"n", "o", "t", "e">>
      [] s = "coutn"        -> <<"c", "o", "u", "t", "n">>
      [] s = "zzz"          -> <<"z", "z", "z">>
      [] s = "hola, mundo"  -> <<"h", "o", "l", "a", ",", " ", "m", "u", "n", "d", "o">>
      [] s = "hello, world" -> <<"h", "e", "l", "l", "o", ",", " ", "w", "o", "r", "l", "d">>
      [] s = "foobar"       -> <<"f", "o", "o", "b", "a", "r">>
      [] s = "hllo wrd"     -> <<"h", "l", "l", "o", " ", "w", "r", "d">>
      [] s = "hi munbar"    -> <<"h", "i", " ", "m", "u", "n", "b", "a", "r">>
      [] s = "flag"         -> <<"f", "l", "a", "g">>
      [] s = "label"        -> <<"l", "a", "b", "e", "l">>
      [] s = "flga"         -> <<"f", "l", "g", "a">>
      [] s = "sub"          -> <<"s", "u", "b">>
      [] s = "req"          -> <<"r", "e", "q">>
      [] s = "kind"         -> <<"k", "i", "n", "d">>
      [] s = "some_ident"   -> <<"s", "o", "m", "e", "_", "i", "d", "e", "n", "t">>
      [] s = "other"        -> <<"o", "t", "h", "e", "r">>
      [] s = ""             -> << >>

Frac(n, d) == [num |-> n, den |-> d]

RECURSIVE FracLess(_, _, _, _)
\* a/b < c/d for a, c >= 0 and b, d > 0, by comparing continued fractions
\* (no product is formed, so nothing overflows).
FracLess(a, b, c, d) ==
    LET qa == a \div b
        qc == c \div d
        ra == a % b
        rc == c % d
    IN  IF qa # qc THEN qa < qc
        ELSE IF rc = 0 THEN FALSE
        ELSE IF ra = 0 THEN TRUE
        ELSE FracLess(d, rc, b, ra)

\* ScoreGreater, were the comparison >=.
ScoreGreater_orEqual(x, y) == ~FracLess(x.num, x.den, y.num, y.den)

\* x > y on scores
ScoreGreater(x, y) == FracLess(y.num, y.den, x.num, x.den)

SetMin(S) == CHOOSE x \in S : \A y \in S : x <= y

RECURSIVE JaroMatches(_, _, _, _, _, _)
\* strsim generic_jaro, the matching loop: each element of a, in order,
\* takes the first unflagged equal element of b within the search range.
JaroMatches(a, b, range, i, aFlags, bFlags) ==
    IF i > Len(a) THEN [a |-> aFlags, b |-> bFlags]
    ELSE LET lo == Max(1, i - range)
             hi == Min(Len(b), i + range)
             cands == {j \in lo..hi : a[i] = b[j] /\ j \notin bFlags}
         IN  IF cands = {} THEN JaroMatches(a, b, range, i + 1, aFlags, bFlags)
             ELSE JaroMatches(a, b, range, i + 1,
                              aFlags \cup {i}, bFlags \cup {SetMin(cands)})

RECURSIVE Flagged(_, _, _)
\* the flagged elements of s from index i on, in order
Flagged(s, flags, i) ==
    IF i > Len(s) THEN << >>
    ELSE (IF i \in flags THEN <<s[i]>> ELSE << >>) \o Flagged(s, flags, i + 1)

\* strsim generic_jaro
jaro(a, b) ==
    IF Len(a) = 0 /\ Len(b) = 0 THEN Frac(1, 1)
    ELSE IF Len(a) = 0 \/ Len(b) = 0 THEN Frac(0, 1)
    ELSE LET range == Max(Max(Len(a), Len(b)) \div 2 - 1, 0)
             f == JaroMatches(a, b, range, 1, {}, {})
             matches == Cardinality(f.a)
             ma == Flagged(a, f.a, 1)
             mb == Flagged(b, f.b, 1)
             transpositions ==
                 Cardinality({k \in 1..matches : ma[k] # mb[k]}) \div 2
         IN  IF matches = 0 THEN Frac(0, 1)
             ELSE Frac(matches * matches * Len(b) + matches * matches * Len(a)
                         + (matches - transpositions) * Len(a) * Len(b),
                       3 * Len(a) * Len(b) * matches)

\* the length of the common prefix of the first four elements of a with b
PrefixLength(a, b) ==
    LET n == Min(Min(Len(a), 4), Len(b))
        diff == {k \in 1..n : a[k] # b[k]}
    IN  IF diff = {} THEN n ELSE SetMin(diff) - 1

\* strsim jaro_winkler on two &str
jaro_winkler(a, b) ==
    LET sim == jaro(Chars(a), Chars(b))
        p == PrefixLength(Chars(a), Chars(b))
    IN  IF ScoreGreater(sim, Frac(7, 10))
        THEN Frac(10 * sim.num + p * (sim.den - sim.num), 10 * sim.den)
        ELSE sim

RECURSIVE BestMatch(_, _, _, _)
\* the for-option-in-more loop of did_you_mean; scores[i] is the similarity
\* of options[i] and given
BestMatch(options, scores, i, best) ==
    IF i > Len(options) THEN best
    ELSE IF ScoreGreater(scores[i], best.score)
         THEN BestMatch(options, scores, i + 1,
                        [option |-> options[i], score |-> scores[i]])
         ELSE BestMatch(options, scores, i + 1, best)

\* did_you_mean, given the similarity of every option
DidYouMeanScored(options, scores) ==
    IF Len(options) = 0 THEN None
    ELSE LET first == [option |-> options[1], score |-> scores[1]]
             best == BestMatch(options, scores, 2, first)
         IN  IF ScoreGreater(best.score, Frac(8, 10)) THEN Some(best.option)
             ELSE None

\* did_you_mean
did_you_mean(options, given) ==
    DidYouMeanScored(options,
                     [i \in 1..Len(options) |-> jaro_winkler(options[i], given)])

(***************************************************************************)
(* core/src/types.rs: the typed conversion layer.  A conversion returns    *)
(* Ok(v) or Err(e); converted values are tagged with their Rust type.      *)
(***************************************************************************)
Ok(v) == [ok |-> TRUE, val |-> v]

Err(e) == [ok |-> FALSE, err |-> e]

IntVal(neg, digits) == [t |-> "int", neg |-> neg, digits |-> digits]

StrVal(s) == [t |-> "str", s |-> s]

BoolVal(b) == [t |-> "bool", b |-> b]

IdentVal(id) == [t |-> "ident", ident |-> id]

VecVal(items) == [t |-> "vec", items |-> items]

\* A syn::Type written as a path: its segments and its generic arguments.
TyPath(segments, args) == [kind |-> "Path", segments |-> segments, args |-> args]

\* format_error
format_error(value, span, expect) ==
    NewError(span,
             IF identifier(value).some
             THEN <<"expected", expect, identifier(value).val>>
             ELSE <<expect, "expected">>)

\* Decimal digit strings without leading zeros, compared as numbers.
DigitsLeq(a, b) ==
    \/ Len(a) < Len(b)
    \/ /\ Len(a) = Len(b)
       /\ \/ a = b
          \/ \E k \in 1..Len(a) :
                /\ a[k] < b[k]
                /\ \A m \in 1..(k - 1) : a[m] = b[m]

RECURSIVE DigitsSucc(_)
\* the digits of the number after the one with digits d
DigitsSucc(d) ==
    IF d = << >> THEN <<1>>
    ELSE IF Last(d) < 9 THEN [d EXCEPT ![Len(d)] = @ + 1]
    ELSE Append(DigitsSucc(SubSeq(d, 1, Len(d) - 1)), 0)

\* The integer types of impl_integers!: signedness, the digits of MAX and the
\* digits of the magnitude of MIN.
IntegerTypes ==
    {"usize", "u128", "u64", "u32", "u16", "u8",
     "isize", "i128", "i64", "i32", "i16", "i8"}

\* MAX and the magnitude of MIN of every type; usize and isize are those of
\* a 64-bit target.
IntegerRange(ty) ==
    CASE ty = "usize" ->
            [signed |-> FALSE,
             max |-> <<1, 8, 4, 4, 6, 7, 4, 4, 0, 7, 3, 7, 0, 9, 5, 5, 1, 6, 1, 5>>,
             min |-> <<0>>]
      [] ty = "u128" ->
            [signed |-> FALSE,
             max |-> <<3, 4, 0, 2, 8, 2, 3, 6, 6, 9, 2, 0, 9, 3, 8, 4, 6, 3, 4, 6,
                     3, 3, 7, 4, 6, 0, 7, 4, 3, 1, 7, 6, 8, 2, 1, 1, 4, 5, 5>>,
             min |-> <<0>>]
      [] ty = "u64" ->
            [signed |-> FALSE,
             max |-> <<1, 8, 4, 4, 6, 7, 4, 4, 0, 7, 3, 7, 0, 9, 5, 5, 1, 6, 1, 5>>,
             min |-> <<0>>]
      [] ty = "u32" ->
            [signed |-> FALSE,
             max |-> <<4, 2, 9, 4, 9, 6, 7, 2, 9, 5>>,
             min |-> <<0>>]
      [] ty = "u16" ->
            [signed |-> FALSE,
             max |-> <<6, 5, 5, 3, 5>>,
             min |-> <<0>>]
      [] ty = "u8" ->
            [signed |-> FALSE,
             max |-> <<2, 5, 5>>,
             min |-> <<0>>]
      [] ty = "isize" ->
            [signed |-> TRUE,
             max |-> <<9, 2, 2, 3, 3, 7, 2, 0, 3, 6, 8, 5, 4, 7, 7, 5, 8, 0, 7>>,
             min |-> <<9, 2, 2, 3, 3, 7, 2, 0, 3, 6, 8, 5, 4, 7, 7, 5, 8, 0, 8>>]
      [] ty = "i128" ->
            [signed |-> TRUE,
             max |-> <<1, 7, 0, 1, 4, 1, 1, 8, 3, 4, 6, 0, 4, 6, 9, 2, 3, 1, 7, 3,
                     1, 6, 8, 7, 3, 0, 3, 7, 1, 5, 8, 8, 4, 1, 0, 5, 7, 2, 7>>,
             min |-> <<1, 7, 0, 1, 4, 1, 1, 8, 3, 4, 6, 0, 4, 6, 9, 2, 3, 1, 7, 3,
                     1, 6, 8, 7, 3, 0, 3, 7, 1, 5, 8, 8, 4, 1, 0, 5, 7, 2, 8>>]
      [] ty = "i64" ->
            [signed |-> TRUE,
             max |-> <<9, 2, 2, 3, 3, 7, 2, 0, 3, 6, 8, 5, 4, 7, 7, 5, 8, 0, 7>>,
             min |-> <<9, 2, 2, 3, 3, 7, 2, 0, 3, 6, 8, 5, 4, 7, 7, 5, 8, 0, 8>>]
      [] ty = "i32" ->
            [signed |-> TRUE,
             max |-> <<2, 1, 4, 7, 4, 8, 3, 6, 4, 7>>,
             min |-> <<2, 1, 4, 7, 4, 8, 3, 6, 4, 8>>]
      [] ty = "i16" ->
            [signed |-> TRUE,
             max |-> <<3, 2, 7, 6, 7>>,
             min |-> <<3, 2, 7, 6, 8>>]
      [] ty = "i8" ->
            [signed |-> TRUE,
             max |-> <<1, 2, 7>>,
             min |-> <<1, 2, 8>>]

\* base10_parse, were the digits taken without the check of the range.
base10_parse_unchecked(ty, lit, span) ==
    IF lit.neg /\ ~IntegerRange(ty).signed /\ lit.digits # <<0>>
    THEN Err(NewError(span, <<"invalid digit found in string">>))
    ELSE Ok(IntVal(lit.neg /\ lit.digits # <<0>>, lit.digits))

\* LitInt::base10_parse::<ty>: str::parse on the literal's digits (with
\* their sign); a failure becomes an Error at the literal.
base10_parse(ty, lit, span) ==
    LET r == IntegerRange(ty)
    IN  IF lit.neg /\ ~r.signed
        THEN Err(NewError(span, <<"invalid digit found in string">>))
        ELSE IF ~lit.neg /\ ~DigitsLeq(lit.digits, r.max)
        THEN Err(NewError(span, <<"number too large to fit in target type">>))
        ELSE IF lit.neg /\ ~DigitsLeq(lit.digits, r.min)
        THEN Err(NewError(span, <<"number too small to fit in target type">>))
        ELSE Ok(IntVal(lit.neg /\ lit.digits # <<0>>, lit.digits))

IsLit(value, kind) == value.kind = "Lit" /\ value.lit.kind = kind

\* impl ParseValue for $t (impl_integers!)
ParseInteger(ty, value, span) ==
    IF value.kind = "Expr"
    THEN IF IsLit(value.value, "Int")
         THEN base10_parse(ty, value.value.lit, ChildSpan(span, 1))
         ELSE Err(format_error(value.value, ChildSpan(span, 1), "integer"))
    ELSE IF IsLit(value, "Int")
    THEN base10_parse(ty, value.lit, span)
    ELSE Err(format_error(value, span, "integer"))

\* ParseIdentifier, were the identifier on the right of an Expr taken as well.
ParseIdentifier_fromExpr(value, span) ==
    IF value.kind = "Ident" THEN Ok(IdentVal(value.ident))
    ELSE IF value.kind = "Expr" /\ value.value.kind = "Ident"
    THEN Ok(IdentVal(value.value.ident))
    ELSE Err(format_error(value, span, "identifier"))

\* impl ParseValue for Ident
ParseIdentifier(value, span) ==
    IF value.kind = "Ident" THEN Ok(IdentVal(value.ident))
    ELSE Err(format_error(value, span, "identifier"))

\* ParseBool, were a bare identifier taken for false.
ParseBool_identFalse(value, span) ==
    IF value.kind = "Expr"
    THEN IF IsLit(value.value, "Bool")
         THEN Ok(BoolVal(value.value.lit.b))
         ELSE Err(format_error(value.value, ChildSpan(span, 1),
                               "boolean (true, false)"))
    ELSE IF value.kind = "Ident"
    THEN Ok(BoolVal(FALSE))
    ELSE Err(format_error(value, span, "boolean expression"))

\* impl ParseValue for bool
ParseBool(value, span) ==
    IF value.kind = "Expr"
    THEN IF IsLit(value.value, "Bool")
         THEN Ok(BoolVal(value.value.lit.b))
         ELSE Err(format_error(value.value, ChildSpan(span, 1),
                               "boolean (true, false)"))
    ELSE IF value.kind = "Ident"
    THEN Ok(BoolVal(TRUE))
    ELSE Err(format_error(value, span, "boolean expression"))

\* ParseString, were a bare string literal taken as well.
ParseString_lenient(value, span) ==
    IF value.kind = "Expr"
    THEN IF IsLit(value.value, "Str")
         THEN Ok(StrVal(value.value.lit.s))
         ELSE Err(format_error(value.value, ChildSpan(span, 1), "string literal"))
    ELSE IF IsLit(value, "Str")
    THEN Ok(StrVal(value.lit.s))
    ELSE Err(format_error(value, span, "string literal"))

\* impl ParseValue for String
ParseString(value, span) ==
    IF value.kind = "Expr"
    THEN IF IsLit(value.value, "Str")
         THEN Ok(StrVal(value.value.lit.s))
         ELSE Err(format_error(value.value, ChildSpan(span, 1), "string literal"))
    ELSE Err(format_error(value, span, "string literal"))

\* The errors of the failed elements, in order.
ErrorsOf(results) ==
    LET failed == SelectSeq(results, LAMBDA r : ~r.ok)
    IN  [k \in 1..Len(failed) |-> failed[k].err]

\* ParseVecString, were every string put in front of the earlier ones.
ParseVecString_reversed(value, span) ==
    IF value.kind = "List"
    THEN LET n == Len(value.values)
             results ==
                 [j \in 1..n |->
                     IF IsLit(value.values[j], "Str")
                     THEN Ok(StrVal(value.values[j].lit.s))
                     ELSE Err(format_error(value.values[j], ChildSpan(span, j),
                                           "string literal"))]
             error == combine(ErrorsOf(results))
         IN  IF error.some THEN Err(error.val)
             ELSE Ok(VecVal([j \in 1..n |-> results[n + 1 - j].val]))
    ELSE Err(format_error(value, span, "list of string literals"))

\* impl ParseValue for Vec<String>
ParseVecString(value, span) ==
    IF value.kind = "List"
    THEN LET results ==
                 [j \in 1..Len(value.values) |->
                     IF IsLit(value.values[j], "Str")
                     THEN Ok(StrVal(value.values[j].lit.s))
                     ELSE Err(format_error(value.values[j], ChildSpan(span, j),
                                           "string literal"))]
             error == combine(ErrorsOf(results))
         IN  IF error.some THEN Err(error.val)
             ELSE Ok(VecVal([j \in 1..Len(results) |-> results[j].val]))
    ELSE Err(format_error(value, span, "list of string literals"))

\* LitFloat::base10_parse::<ty> for an integer ty: str::parse on the digits,
\* which fails at the point when there is one.
base10_parse_float(ty, lit, span) ==
    IF lit.frac # << >>
    THEN Err(NewError(span, <<"invalid digit found in string">>))
    ELSE base10_parse(ty, lit, span)

RECURSIVE ParseVecIntegerFrom(_, _, _, _, _, _)
\* impl ParseValue for Vec<$t> (impl_integers!), the for loop from the j-th
\* value on: the ? on base10_parse returns its error at once.
ParseVecIntegerFrom(ty, values, span, j, lits, errs) ==
    IF j > Len(values)
    THEN LET error == combine(errs)
         IN  IF error.some THEN Err(error.val) ELSE Ok(VecVal(lits))
    ELSE LET value == values[j]
             parsed_ == IF IsLit(value, "Float")
                        THEN base10_parse_float(ty, value.lit, ChildSpan(span, j))
                        ELSE base10_parse(ty, value.lit, ChildSpan(span, j))
         IN  IF IsLit(value, "Float") \/ IsLit(value, "Int")
             THEN IF parsed_.ok
                  THEN ParseVecIntegerFrom(ty, values, span, j + 1,
                                           Append(lits, parsed_.val), errs)
                  ELSE parsed_
             ELSE ParseVecIntegerFrom(ty, values, span, j + 1, lits,
                      Append(errs, format_error(value, ChildSpan(span, j),
                                                "decimal")))

\* impl ParseValue for Vec<$t> (impl_integers!)
ParseVecInteger(ty, value, span) ==
    IF value.kind = "List"
    THEN ParseVecIntegerFrom(ty, value.values, span, 1, << >>, << >>)
    ELSE Err(format_error(value, span, "list of decimals"))

\* a parsed syn::Lit
LitVal(lit) == [t |-> "lit", lit |-> lit]

\* impl ParseValue for Lit
ParseLitExpr(value, span) ==
    IF value.kind = "Expr"
    THEN IF value.value.kind = "Lit"
         THEN Ok(LitVal(value.value.lit))
         ELSE Err(format_error(value.value, ChildSpan(span, 1), "literal"))
    ELSE Err(format_error(value, span, "literal expression"))

\* ParseVecLit, were every element given to the scalar conversion for Lit.
ParseVecLit_viaScalar(value, span) ==
    IF value.kind = "List"
    THEN LET results ==
                 [j \in 1..Len(value.values) |->
                     ParseLitExpr(value.values[j], ChildSpan(span, j))]
             error == combine(ErrorsOf(results))
         IN  IF error.some THEN Err(error.val)
             ELSE Ok(VecVal([j \in 1..Len(results) |-> results[j].val]))
    ELSE Err(format_error(value, span, "list of literals"))

\* impl ParseValue for Vec<Lit>
ParseVecLit(value, span) ==
    IF value.kind = "List"
    THEN LET results ==
                 [j \in 1..Len(value.values) |->
                     IF value.values[j].kind = "Lit"
                     THEN Ok(LitVal(value.values[j].lit))
                     ELSE Err(format_error(value.values[j], ChildSpan(span, j),
                                           "literal"))]
             error == combine(ErrorsOf(results))
         IN  IF error.some THEN Err(error.val)
             ELSE Ok(VecVal([j \in 1..Len(results) |-> results[j].val]))
    ELSE Err(format_error(value, span, "list of literals"))

\* The records with #[derive(Squattr)] that other records nest:
\*   struct Sub { flag: bool, label: Option<String> }
\*   struct Req { count: u32, flag: bool }
\*   struct Parent { sub: Sub, req: Option<Req> }
\*   struct Tagged { kind: Ident, some_ident: Option<Ident> }
RecordTypes == {"Sub", "Req", "Parent", "Tagged"}

\* the records among them that have a field of a record type
NestingRecords == {"Parent"}

RecordFields(name) ==
    CASE name = "Sub" ->
            << [ident |-> "flag", ty |-> TyPath(<<"bool">>, << >>)],
               [ident |-> "label",
                ty |-> TyPath(<<"Option">>, <<TyPath(<<"String">>, << >>)>>)] >>
      [] name = "Req" ->
            << [ident |-> "count", ty |-> TyPath(<<"u32">>, << >>)],
               [ident |-> "flag", ty |-> TyPath(<<"bool">>, << >>)] >>
      [] name = "Parent" ->
            << [ident |-> "sub", ty |-> TyPath(<<"Sub">>, << >>)],
               [ident |-> "req",
                ty |-> TyPath(<<"Option">>, <<TyPath(<<"Req">>, << >>)>>)] >>
      [] name = "Tagged" ->
            << [ident |-> "kind", ty |-> TyPath(<<"Ident">>, << >>)],
               [ident |-> "some_ident",
                ty |-> TyPath(<<"Option">>, <<TyPath(<<"Ident">>, << >>)>>)] >>

\* The float types of impl_floats!
FloatTypes == {"f64", "f32"}

\* The digits of 2^53 and of 2^24: every integer up to there is a value of
\* the type.
ExactLimit(ty) ==
    CASE ty = "f64" -> <<9, 0, 0, 7, 1, 9, 9, 2, 5, 4, 7, 4, 0, 9, 9, 2>>
      [] ty = "f32" -> <<1, 6, 7, 7, 7, 2, 1, 6>>

\* The digits of 2^54 and of 2^25: from ExactLimit to there the values of the
\* type are the even integers.
EvenLimit(ty) ==
    CASE ty = "f64" -> <<1, 8, 0, 1, 4, 3, 9, 8, 5, 0, 9, 4, 8, 1, 9, 8, 4>>
      [] ty = "f32" -> <<3, 3, 5, 5, 4, 4, 3, 2>>

\* the remainder modulo 4 of the number with digits d, of two digits at least
Mod4(d) == (10 * d[Len(d) - 1] + d[Len(d)]) % 4

\* str::parse::<ty> on the digits of an integer up to EvenLimit: the nearest
\* value of the type, the one with the even significand when two are as near.
RoundInteger(ty, digits) ==
    IF DigitsLeq(digits, ExactLimit(ty)) \/ Last(digits) % 2 = 0 THEN digits
    ELSE IF Mod4(digits) = 1 THEN [digits EXCEPT ![Len(digits)] = @ - 1]
    ELSE DigitsSucc(digits)

RECURSIVE StripZeros(_)
\* the digits after the point without the zeros at their end
StripZeros(frac) ==
    IF frac = << >> \/ Last(frac) # 0 THEN frac
    ELSE StripZeros(SubSeq(frac, 1, Len(frac) - 1))

\* a parsed float: its sign, its whole part and the digits after the point
FloatVal(neg, whole, frac) == [t |-> "float", neg |-> neg, whole |-> whole, frac |-> frac]

\* LitInt::base10_parse and LitFloat::base10_parse for a float ty: str::parse
\* on the digits.  Fractions are kept in decimal.
parse_float(ty, lit) ==
    LET frac == IF lit.kind = "Float" THEN StripZeros(lit.frac) ELSE << >>
    IN  FloatVal(lit.neg,
                 IF frac = << >> THEN RoundInteger(ty, lit.digits) ELSE lit.digits,
                 frac)

\* ParseFloat, were integer literals left to the integer types.
ParseFloat_floatOnly(ty, value, span) ==
    IF value.kind = "Expr"
    THEN IF IsLit(value.value, "Float")
         THEN Ok(parse_float(ty, value.value.lit))
         ELSE Err(format_error(value.value, ChildSpan(span, 1), "decimal"))
    ELSE IF IsLit(value, "Float")
    THEN Ok(parse_float(ty, value.lit))
    ELSE Err(format_error(value, span, "decimal"))

\* impl ParseValue for $t (impl_floats!)
ParseFloat(ty, value, span) ==
    IF value.kind = "Expr"
    THEN IF IsLit(value.value, "Float") \/ IsLit(value.value, "Int")
         THEN Ok(parse_float(ty, value.value.lit))
         ELSE Err(format_error(value.value, ChildSpan(span, 1), "decimal"))
    ELSE IF IsLit(value, "Float") \/ IsLit(value, "Int")
    THEN Ok(parse_float(ty, value.lit))
    ELSE Err(format_error(value, span, "decimal"))

\* ParseValueExt::parse::<T>: T::parse(value), T resolved by the compiler.
ParseValue(T, value, span) ==
    LET name == Last(T.segments)
    IN  CASE name \in IntegerTypes -> ParseInteger(name, value, span)
          [] name \in FloatTypes -> ParseFloat(name, value, span)
          [] name = "bool" -> ParseBool(value, span)
          [] name = "Ident" -> ParseIdentifier(value, span)
          [] name = "String" -> ParseString(value, span)
          [] name = "Lit" -> ParseLitExpr(value, span)
          [] name = "Vec" /\ Last(T.args[1].segments) = "String" ->
                ParseVecString(value, span)
          [] name = "Vec" /\ Last(T.args[1].segments) \in IntegerTypes ->
                ParseVecInteger(Last(T.args[1].segments), value, span)
          [] name = "Vec" /\ Last(T.args[1].segments) = "Lit" ->
                ParseVecLit(value, span)

\* insert_value, were a filled slot overwritten by a later value.
insert_value_overwrite(slot, T, id, value, span, errs) ==
    LET r == ParseValue(T, value, span)
    IN  IF ~slot.some
        THEN IF r.ok
             THEN [slot |-> Some(r.val), errors |-> errs]
             ELSE [slot |-> slot, errors |-> Append(errs, r.err)]
        ELSE [slot |-> IF r.ok THEN Some(r.val) ELSE slot,
              errors |-> Append(errs,
                                NewError(span, <<"duplicate entry for", id>>))]

\* insert_value, were an error pushed for a value that fills the slot, too.
insert_value_noted(slot, T, id, value, span, errs) ==
    IF ~slot.some
    THEN LET r == ParseValue(T, value, span)
         IN  IF r.ok
             THEN [slot |-> Some(r.val),
                   errors |-> Append(errs, NewError(span, <<"entry for", id>>))]
             ELSE [slot |-> slot, errors |-> Append(errs, r.err)]
    ELSE [slot |-> slot,
          errors |-> Append(errs, NewError(span, <<"duplicate entry for", id>>))]

\* insert_value, were a value for a filled slot passed over in silence.
insert_value_noDuplicate(slot, T, id, value, span, errs) ==
    IF ~slot.some
    THEN LET r == ParseValue(T, value, span)
         IN  IF r.ok
             THEN [slot |-> Some(r.val), errors |-> errs]
             ELSE [slot |-> slot, errors |-> Append(errs, r.err)]
    ELSE [slot |-> slot, errors |-> errs]

\* insert_value, were a filled slot emptied by a later value.
insert_value_take(slot, T, id, value, span, errs) ==
    IF ~slot.some
    THEN LET r == ParseValue(T, value, span)
         IN  IF r.ok
             THEN [slot |-> Some(r.val), errors |-> errs]
             ELSE [slot |-> slot, errors |-> Append(errs, r.err)]
    ELSE [slot |-> None,
          errors |-> Append(errs, NewError(span, <<"duplicate entry for", id>>))]

\* ValueStorageExt::insert_value on an Option<T> slot: the new slot and the
\* new error vector.
insert_value(slot, T, id, value, span, errs) ==
    IF ~slot.some
    THEN LET r == ParseValue(T, value, span)
         IN  IF r.ok
             THEN [slot |-> Some(r.val), errors |-> errs]
             ELSE [slot |-> slot, errors |-> Append(errs, r.err)]
    ELSE [slot |-> slot,
          errors |-> Append(errs, NewError(span, <<"duplicate entry for", id>>))]

(***************************************************************************)
(* internals/src/types.rs: the conversions of the internals crate that     *)
(* differ from those of core.                                              *)
(***************************************************************************)
\* format_error (internals)
InternalsFormatError(value, span, expect) ==
    NewError(span,
             IF identifier(value).some
             THEN <<identifier(value).val, "expects", expect>>
             ELSE <<"expected", expect>>)

\* impl ParseValue for bool (internals)
InternalsParseBool(value, span) ==
    IF value.kind = "Expr"
    THEN IF IsLit(value.value, "Bool")
         THEN Ok(BoolVal(value.value.lit.b))
         ELSE Err(InternalsFormatError(value.value, ChildSpan(span, 1),
                                       "a boolean value (true, false)"))
    ELSE IF value.kind = "Ident"
    THEN Ok(BoolVal(TRUE))
    ELSE Err(InternalsFormatError(value, span, "a boolean expression"))

\* impl ParseValue for String (internals)
InternalsParseString(value, span) ==
    IF value.kind = "Expr"
    THEN IF IsLit(value.value, "Str")
         THEN Ok(StrVal(value.value.lit.s))
         ELSE Err(InternalsFormatError(value.value, ChildSpan(span, 1),
                                       "a string literal"))
    ELSE IF IsLit(value, "Str")
    THEN Ok(StrVal(value.lit.s))
    ELSE Err(InternalsFormatError(value, span, "a string literal"))

\* ParseValueExt::parse::<T> (internals), for the types above
InternalsParseValue(T, value, span) ==
    LET name == Last(T.segments)
    IN  CASE name = "bool" -> InternalsParseBool(value, span)
          [] name = "String" -> InternalsParseString(value, span)

(***************************************************************************)
(* core/src/expand.rs: the generator.  Fields is the record declaration    *)
(* handed to the derive; the operators below are the pieces of code that   *)
(* expand_named_struct emits for it.                                       *)
(***************************************************************************)
\* struct Widget { count: u32, name: String, tags: Vec<String>,
\*                 enabled: bool, note: Option<String> }
Fields ==
    << [ident |-> "count", ty |-> TyPath(<<"u32">>, << >>)],
       [ident |-> "name", ty |-> TyPath(<<"String">>, << >>)],
       [ident |-> "tags",
        ty |-> TyPath(<<"Vec">>, <<TyPath(<<"String">>, << >>)>>)],
       [ident |-> "enabled", ty |-> TyPath(<<"bool">>, << >>)],
       [ident |-> "note",
        ty |-> TyPath(<<"Option">>, <<TyPath(<<"String">>, << >>)>>)] >>

\* matches_type_path, were the last segment alone compared.
matches_type_path_lastSegment(ty, expected) ==
    /\ ty.kind = "Path"
    /\ Last(ty.segments) = Last(expected)

\* matches_type_path: from back to front, the segments both paths have.
matches_type_path(ty, expected) ==
    /\ ty.kind = "Path"
    /\ \A k \in 1..Min(Len(ty.segments), Len(expected)) :
          ty.segments[Len(ty.segments) + 1 - k] = expected[Len(expected) + 1 - k]

\* is_optional
is_optional(ty) == matches_type_path(ty, <<"std", "option", "Option">>)

\* is_boolean, were the expected path misspelt.
is_boolean_misspelt(ty) == matches_type_path(ty, <<"std", "primitive", "boolean">>)

\* is_boolean
is_boolean(ty) == matches_type_path(ty, <<"std", "primitive", "bool">>)

\* #field_strs
field_strs == [i \in 1..Len(Fields) |-> Fields[i].ident]

FieldNames == {Fields[i].ident : i \in 1..Len(Fields)}

FieldOf(id) == CHOOSE f \in {Fields[i] : i \in 1..Len(Fields)} : f.ident = id

\* #variables: every field starts as Option::None.
variables == [f \in FieldNames |-> None]

\* The T of a field's Option<T> slot: the field's own type, or what its
\* Option wraps when the field is declared optional.
SlotType(field) == IF is_optional(field.ty) THEN field.ty.args[1] ELSE field.ty

\* IsRequired, were a boolean field checked like any other field.
IsRequired_booleanToo(field) == ~is_optional(field.ty)

\* A field for which #required_checks holds a check.
IsRequired(field) == ~is_optional(field.ty) /\ ~is_boolean(field.ty)

RECURSIVE required_checks(_, _, _, _)
\* #required_checks, from the i-th field on
required_checks(i, slts, span, errs) ==
    IF i > Len(Fields) THEN errs
    ELSE required_checks(i + 1, slts, span,
            IF IsRequired(Fields[i]) /\ ~slts[Fields[i].ident].some
            THEN Append(errs, NewError(span,
                     <<"required key not found", Fields[i].ident>>))
            ELSE errs)

\* A field of #struct_fields; expect() on None panics.
struct_field(field, slot) ==
    IF is_optional(field.ty) THEN slot
    ELSE IF is_boolean(field.ty)
    THEN (IF slot.some THEN slot.val ELSE BoolVal(FALSE))
    ELSE IF slot.some THEN slot.val ELSE [panic |-> TRUE]

\* Ok(Self { #struct_fields })
struct_fields(slts) == [f \in FieldNames |-> struct_field(FieldOf(f), slts[f])]

\* #field_strs of a record
FieldStrs(fields) == [i \in 1..Len(fields) |-> fields[i].ident]

RECURSIVE ScanValues(_, _, _, _, _, _)

\* the field of a record whose name is id
FieldNamed(fields, id) ==
    CHOOSE f \in {fields[k] : k \in 1..Len(fields)} : f.ident = id

\* the for loop goes on after insert_value returned r for the i-th value
ScanInserted(fields, values, base, i, slts, r) ==
    ScanValues(fields, values, base, i + 1,
               [slts EXCEPT ![identifier(values[i]).val] = r.slot], r.errors)

\* the for loop of the generated from_values, from the i-th value on
ScanValues(fields, values, base, i, slts, errs) ==
    IF i > Len(values) THEN [slots |-> slts, errors |-> errs]
    ELSE LET value == values[i]
             span == ChildSpan(base, i)
             id == identifier(value)
             declared == {fields[k].ident : k \in 1..Len(fields)}
         IN  IF ~id.some
             THEN ScanValues(fields, values, base, i + 1, slts,
                      Append(errs, NewError(span, <<"expected an identifier">>)))
             ELSE IF id.val \in declared
             THEN ScanInserted(fields, values, base, i, slts,
                      insert_value(slts[id.val], SlotType(FieldNamed(fields, id.val)),
                                   id.val, value, span, errs))
             ELSE LET best == did_you_mean(FieldStrs(fields), id.val)
                      dym == IF best.some THEN <<"did you mean", best.val>>
                             ELSE << >>
                  IN  ScanValues(fields, values, base, i + 1, slts,
                          Append(errs, NewError(span,
                                     <<"unrecognized key", id.val>> \o dym)))

RECURSIVE RequiredChecksOf(_, _, _, _, _)
\* #required_checks of a record, from the i-th field on
RequiredChecksOf(fields, i, slts, span, errs) ==
    IF i > Len(fields) THEN errs
    ELSE RequiredChecksOf(fields, i + 1, slts, span,
            IF IsRequired(fields[i]) /\ ~slts[fields[i].ident].some
            THEN Append(errs, NewError(span,
                     <<"required key not found", fields[i].ident>>))
            ELSE errs)

\* errors.combine(): return Err(error), or Ok(Self { #struct_fields })
Returned(fields, slts, error) ==
    IF error.some THEN Err(error.val)
    ELSE Ok([f \in {fields[k].ident : k \in 1..Len(fields)} |->
                struct_field(FieldNamed(fields, f), slts[f])])

\* #required_checks, combine and return, after the for loop ended as scanned
Checked(fields, span, scanned) ==
    Returned(fields, scanned.slots,
             combine(RequiredChecksOf(fields, 1, scanned.slots, span,
                                      scanned.errors)))

\* from_values, were the loop left at the first value without identifier.
from_values_break(fields, values, base) ==
    LET stop == {i \in 1..Len(values) : ~identifier(values[i]).some}
        taken == IF stop = {} THEN values
                 ELSE SubSeq(values, 1, SetMin(stop))
    IN  Checked(fields, ValuesSpan(base, Len(values)),
                ScanValues(fields, taken, base, 1,
                           [f \in {fields[k].ident : k \in 1..Len(fields)} |-> None],
                           << >>))

\* The from_values generated for a record, on the values found at base: the
\* span of the required checks is values.span().
from_values(fields, values, base) ==
    Checked(fields, ValuesSpan(base, Len(values)),
            ScanValues(fields, values, base, 1,
                       [f \in {fields[k].ident : k \in 1..Len(fields)} |-> None],
                       << >>))

\* ParseAttribute, were the values inside the List left out.
ParseAttribute_noValues(name, value, span) ==
    IF value.kind = "List"
    THEN from_values(RecordFields(name), << >>, span)
    ELSE Err(format_error(value, span, "list of values"))

\* impl<T: Attribute> ParseValue for T: from_values on the values of a List
ParseAttribute(name, value, span) ==
    IF value.kind = "List"
    THEN from_values(RecordFields(name), value.values, span)
    ELSE Err(format_error(value, span, "list of values"))

\* ParseValueExt::parse::<T> for the type of a field of a nesting record: the
\* blanket impl when T is a record, the impls of types.rs otherwise.
ParseField(T, value, span) ==
    IF Last(T.segments) \in RecordTypes
    THEN ParseAttribute(Last(T.segments), value, span)
    ELSE ParseValue(T, value, span)

RECURSIVE ScanNestingValues(_, _, _, _, _, _)

\* insert_value on an empty slot: the parsed value is stored, or its error
\* pushed
Stored(slot, r, errs) ==
    IF r.ok
    THEN [slot |-> Some(r.val), errors |-> errs]
    ELSE [slot |-> slot, errors |-> Append(errs, r.err)]

\* ValueStorageExt::insert_value on the slot of a field of a nesting record
insert_nested_value(slot, T, id, value, span, errs) ==
    IF ~slot.some
    THEN Stored(slot, ParseField(T, value, span), errs)
    ELSE [slot |-> slot,
          errors |-> Append(errs, NewError(span, <<"duplicate entry for", id>>))]

\* the for loop goes on after insert_value returned r for the i-th value
ScanNestingInserted(fields, values, base, i, slts, r) ==
    ScanNestingValues(fields, values, base, i + 1,
                      [slts EXCEPT ![identifier(values[i]).val] = r.slot], r.errors)

\* the for loop of the from_values generated for a nesting record, from the
\* i-th value on
ScanNestingValues(fields, values, base, i, slts, errs) ==
    IF i > Len(values) THEN [slots |-> slts, errors |-> errs]
    ELSE LET value == values[i]
             span == ChildSpan(base, i)
             id == identifier(value)
             declared == {fields[k].ident : k \in 1..Len(fields)}
         IN  IF ~id.some
             THEN ScanNestingValues(fields, values, base, i + 1, slts,
                      Append(errs, NewError(span, <<"expected an identifier">>)))
             ELSE IF id.val \in declared
             THEN ScanNestingInserted(fields, values, base, i, slts,
                      insert_nested_value(slts[id.val],
                                          SlotType(FieldNamed(fields, id.val)),
                                          id.val, value, span, errs))
             ELSE LET best == did_you_mean(FieldStrs(fields), id.val)
                      dym == IF best.some THEN <<"did you mean", best.val>>
                             ELSE << >>
                  IN  ScanNestingValues(fields, values, base, i + 1, slts,
                          Append(errs, NewError(span,
                                     <<"unrecognized key", id.val>> \o dym)))

\* The from_values generated for a nesting record, on the values found at
\* base.
from_nesting_values(fields, values, base) ==
    Checked(fields, ValuesSpan(base, Len(values)),
            ScanNestingValues(fields, values, base, 1,
                              [f \in {fields[k].ident : k \in 1..Len(fields)} |-> None],
                              << >>))

\* impl<T: Attribute> ParseValue for T, T a nesting record
ParseNestingAttribute(name, value, span) ==
    IF value.kind = "List"
    THEN from_nesting_values(RecordFields(name), value.values, span)
    ELSE Err(format_error(value, span, "list of values"))

\* ParseValueExt::parse::<T> for every type converted here
ParseAny(T, value, span) ==
    LET name == Last(T.segments)
    IN  IF name \in NestingRecords THEN ParseNestingAttribute(name, value, span)
        ELSE IF name \in RecordTypes THEN ParseAttribute(name, value, span)
        ELSE ParseValue(T, value, span)

(***************************************************************************)
(* The generated from_values, one step per iteration of the for loop over *)
(* values, then   the required checks, then combine and return.  The values *)
(* are supplied one by one as the loop takes them.                         *)
(***************************************************************************)
ValueUniverse ==
    { Expr("count", Lit(LitInt(FALSE, <<5>>))),
      Expr("count", Lit(LitInt(FALSE, <<6>>))),
      Expr("count", Lit(LitStr("x"))),
      Expr("name", Lit(LitStr("widget"))),
      List("tags", <<Lit(LitStr("a")), Lit(LitStr("b"))>>),
      List("tags", <<Lit(LitInt(FALSE, <<5>>)), Lit(LitStr("a")),
                     Lit(LitInt(FALSE, <<6>>))>>),
      Ident("enabled"),
      Expr("enabled", Lit(LitBool(FALSE))),
      Expr("note", Lit(LitStr("n"))),
      Expr("coutn", Lit(LitInt(FALSE, <<5>>))),
      Ident("zzz"),
      Lit(LitInt(FALSE, <<7>>)) }

\* the location of the value the loop takes next
NextSpan == <<Len(input) + 1>>

\* The variables of the other operations, while from_values runs.
IdleCombine == diagnostics = << >> /\ combined = None

IdleDym == optionsArg = << >> /\ givenArg = "" /\ scoreOf = << >> /\ suggestion = None

IdleParse ==
    /\ tokens = << >>
    /\ cursor = 1
    /\ alternative = "idle"
    /\ fork = None
    /\ parsed = << >>
    /\ outcome = None

IdleConvert ==
    /\ convTy = None
    /\ convValue = None
    /\ convBy = "idle"
    /\ convResult = None

IdleExpand == declaration = None /\ expanded = None

IdlePermute ==
    /\ permValues = << >>
    /\ permOrder = << >>
    /\ permBound = None
    /\ permRebound = None

IdleExtract ==
    /\ attrsGiven = << >>
    /\ attributes = << >>
    /\ attrPath = ""
    /\ extracted = None

IdleBind ==
    /\ pc = "idle"
    /\ input = << >>
    /\ slots = variables
    /\ errors = << >>
    /\ result = None

Init ==
    /\ pc = "scan"
    /\ input = << >>
    /\ slots = variables
    /\ errors = << >>
    /\ result = None
    /\ IdleCombine
    /\ IdleDym
    /\ IdleParse
    /\ IdleConvert
    /\ IdleExpand
    /\ IdlePermute
    /\ IdleExtract

\* ScanNoIdentifier, were the value passed over without a diagnostic.
ScanNoIdentifier_silent(value) ==
    /\ pc = "scan"
    /\ Len(input) < MaxValues
    /\ ~identifier(value).some
    /\ input' = Append(input, value)
    /\ UNCHANGED <<pc, slots, errors, result, combineVars, dymVars, parseVars,
                 convertVars, expandVars, permuteVars, extractVars>>

\* value.identifier() is None: push "expected an identifier" and continue
ScanNoIdentifier(value) ==
    /\ pc = "scan"
    /\ Len(input) < MaxValues
    /\ ~identifier(value).some
    /\ errors' = Append(errors, NewError(NextSpan, <<"expected an identifier">>))
    /\ input' = Append(input, value)
    /\ UNCHANGED <<pc, slots, result, combineVars, dymVars, parseVars,
                 convertVars, expandVars, permuteVars, extractVars>>

\* a #match_arms arm: <field>.insert_value(id_str, value, &mut errors)
ScanField(value) ==
    /\ pc = "scan"
    /\ Len(input) < MaxValues
    /\ identifier(value).some
    /\ identifier(value).val \in FieldNames
    /\ LET id == identifier(value).val
           r == insert_value(slots[id], SlotType(FieldOf(id)), id, value,
                             NextSpan, errors)
       IN  /\ slots' = [slots EXCEPT ![id] = r.slot]
           /\ errors' = r.errors
    /\ input' = Append(input, value)
    /\ UNCHANGED <<pc, result, combineVars, dymVars, parseVars,
                 convertVars, expandVars, permuteVars, extractVars>>

\* ScanUnrecognized, were the suggestion left out.
ScanUnrecognized_noSuggestion(value) ==
    /\ pc = "scan"
    /\ Len(input) < MaxValues
    /\ identifier(value).some
    /\ identifier(value).val \notin FieldNames
    /\ errors' = Append(errors,
                        NewError(NextSpan,
                                 <<"unrecognized key", identifier(value).val>>))
    /\ input' = Append(input, value)
    /\ UNCHANGED <<pc, slots, result, combineVars, dymVars, parseVars,
                 convertVars, expandVars, permuteVars, extractVars>>

\* the fallback arm: "unrecognized key", with the suggestion of did_you_mean
ScanUnrecognized(value) ==
    /\ pc = "scan"
    /\ Len(input) < MaxValues
    /\ identifier(value).some
    /\ identifier(value).val \notin FieldNames
    /\ LET id == identifier(value).val
           best == did_you_mean(field_strs, id)
           dym == IF best.some THEN <<"did you mean", best.val>> ELSE << >>
       IN  errors' = Append(errors,
                            NewError(NextSpan, <<"unrecognized key", id>> \o dym))
    /\ input' = Append(input, value)
    /\ UNCHANGED <<pc, slots, result, combineVars, dymVars, parseVars,
                 convertVars, expandVars, permuteVars, extractVars>>

\* RequiredChecks, were no check generated.
RequiredChecks_none ==
    /\ pc = "scan"
    /\ pc' = "combine"
    /\ UNCHANGED <<input, slots, errors, result, combineVars, dymVars, parseVars,
                 convertVars, expandVars, permuteVars, extractVars>>

\* RequiredChecks, were the required-key errors put before those of the scan.
RequiredChecks_first ==
    /\ pc = "scan"
    /\ errors' = required_checks(1, slots, ValuesSpan(<< >>, Len(input)), << >>)
                     \o errors
    /\ pc' = "combine"
    /\ UNCHANGED <<input, slots, result, combineVars, dymVars, parseVars,
                 convertVars, expandVars, permuteVars, extractVars>>

\* the loop is over: #required_checks, anchored at values.span()
RequiredChecks ==
    /\ pc = "scan"
    /\ errors' = required_checks(1, slots, ValuesSpan(<< >>, Len(input)), errors)
    /\ pc' = "combine"
    /\ UNCHANGED <<input, slots, result, combineVars, dymVars, parseVars,
                 convertVars, expandVars, permuteVars, extractVars>>

\* Return, were the errors looked at only when a required slot is empty.
Return_unlessFilled ==
    /\ pc = "combine"
    /\ LET error == combine(errors)
           filled == \A i \in 1..Len(Fields) :
                        IsRequired(Fields[i]) => slots[Fields[i].ident].some
       IN  result' = IF error.some /\ ~filled THEN Some(Err(error.val))
                     ELSE Some(Ok(struct_fields(slots)))
    /\ pc' = "done"
    /\ UNCHANGED <<input, slots, errors, combineVars, dymVars, parseVars,
                 convertVars, expandVars, permuteVars, extractVars>>

\* errors.combine(): return Err(error), or Ok(Self { #struct_fields })
Return ==
    /\ pc = "combine"
    /\ LET error == combine(errors)
       IN  result' = IF error.some THEN Some(Err(error.val))
                     ELSE Some(Ok(struct_fields(slots)))
    /\ pc' = "done"
    /\ UNCHANGED <<input, slots, errors, combineVars, dymVars, parseVars,
                 convertVars, expandVars, permuteVars, extractVars>>

Next ==
    \/ \E value \in ValueUniverse :
          \/ ScanNoIdentifier(value)
          \/ ScanField(value)
          \/ ScanUnrecognized(value)
    \/ RequiredChecks
    \/ Return

Spec == Init /\ [][Next]_vars

\* The same procedure on the values that matter to the order of the
\* diagnostics, to duplicates and to the required checks: values for the
\* required fields, good and bad, a flag, an unknown key and a bare literal.
ScanUniverse ==
    { Expr("count", Lit(LitInt(FALSE, <<5>>))),
      Expr("count", Lit(LitInt(FALSE, <<6>>))),
      Expr("count", Lit(LitStr("x"))),
      Expr("name", Lit(LitStr("widget"))),
      List("tags", <<Lit(LitStr("a")), Lit(LitStr("b"))>>),
      List("tags", <<Lit(LitInt(FALSE, <<5>>)), Lit(LitStr("a")),
                     Lit(LitInt(FALSE, <<6>>))>>),
      Ident("enabled"),
      Ident("zzz"),
      Lit(LitInt(FALSE, <<7>>)) }

NextScan ==
    \/ \E value \in ScanUniverse :
          \/ ScanNoIdentifier(value)
          \/ ScanField(value)
          \/ ScanUnrecognized(value)
    \/ RequiredChecks
    \/ Return

SpecScan == Init /\ [][NextScan]_vars

(***************************************************************************)
(* ErrorsExt::combine as an operation of its own, on vectors of errors of  *)
(* one or two entries.                                                     *)
(***************************************************************************)
Entries ==
    { [span |-> <<1>>, msg |-> <<"expected an identifier">>],
      [span |-> <<2>>, msg |-> <<"duplicate entry for", "count">>],
      [span |-> <<0>>, msg |-> <<"required key not found", "name">>] }

ErrorUniverse == {s \in BoundedSeq(Entries, 2) : Len(s) > 0}

InitCombine ==
    /\ diagnostics \in BoundedSeq(ErrorUniverse, MaxErrors)
    /\ combined = None
    /\ IdleBind
    /\ IdleDym
    /\ IdleParse
    /\ IdleConvert
    /\ IdleExpand
    /\ IdlePermute
    /\ IdleExtract

Combine ==
    /\ ~combined.some
    /\ combined' = Some(combine(diagnostics))
    /\ UNCHANGED <<diagnostics, bindVars, dymVars, parseVars,
                 convertVars, expandVars, permuteVars, extractVars>>

NextCombine == Combine

SpecCombine == InitCombine /\ [][NextCombine]_vars

(***************************************************************************)
(* did_you_mean as an operation of its own: with strsim's jaro_winkler on  *)
(* the strings of the crate's tests and of the Widget record, and with a   *)
(* similarity given as a table of scores around the 0.8 threshold.         *)
(***************************************************************************)
DymOptions == {"count", "name", "tags", "hola, mundo", "hello, world", "foobar"}

DymGivens == {"coutn", "zzz", "count", "hllo wrd", "hi munbar"}

TableOptions == {"a", "b", "c"}

ScoreLevels == {Frac(7, 10), Frac(8, 10), Frac(9, 10)}

InitDym ==
    /\ \/ /\ optionsArg \in BoundedSeq(DymOptions, MaxOptions)
          /\ givenArg \in DymGivens
          /\ scoreOf = << >>
       \/ /\ optionsArg \in BoundedSeq(TableOptions, MaxOptions)
          /\ givenArg = ""
          /\ scoreOf \in [TableOptions -> ScoreLevels]
    /\ suggestion = None
    /\ IdleBind
    /\ IdleCombine
    /\ IdleParse
    /\ IdleConvert
    /\ IdleExpand
    /\ IdlePermute
    /\ IdleExtract

\* did_you_mean(options, given)
Suggest ==
    /\ ~suggestion.some
    /\ scoreOf = << >>
    /\ suggestion' = Some(did_you_mean(optionsArg, givenArg))
    /\ UNCHANGED <<optionsArg, givenArg, scoreOf, bindVars, combineVars, parseVars,
                 convertVars, expandVars, permuteVars, extractVars>>

\* did_you_mean(options, given) when the similarity is the table
SuggestByTable ==
    /\ ~suggestion.some
    /\ scoreOf # << >>
    /\ suggestion' = Some(DidYouMeanScored(optionsArg,
                          [i \in 1..Len(optionsArg) |-> scoreOf[optionsArg[i]]]))
    /\ UNCHANGED <<optionsArg, givenArg, scoreOf, bindVars, combineVars, parseVars,
                 convertVars, expandVars, permuteVars, extractVars>>

NextDym == Suggest \/ SuggestByTable

SpecDym == InitDym /\ [][NextDym]_vars

(***************************************************************************)
(* core/src/ast.rs: the grammar parser.  A token stream is a sequence of   *)
(* token trees (a parenthesized group is one token holding a stream); a    *)
(* parser takes a stream and a cursor position and returns the value and   *)
(* the position it reached, or the position at which it gave up.           *)
(***************************************************************************)
TIdent(name) == [tok |-> "Ident", name |-> name]

TPunct(ch) == [tok |-> "Punct", ch |-> ch]

TLit(lit) == [tok |-> "Literal", lit |-> lit]

TGroup(stream) == [tok |-> "Group", delim |-> "Paren", stream |-> stream]

Parsed(v, p) == [ok |-> TRUE, val |-> v, pos |-> p]

Failed(p, msg) == [ok |-> FALSE, pos |-> p, msg |-> msg]

\* <Ident as Parse>::parse
ParseIdent(s, p) ==
    IF p <= Len(s) /\ s[p].tok = "Ident" THEN Parsed(s[p].name, p + 1)
    ELSE Failed(p, "expected identifier")

\* <Lit as Parse>::parse
ParseLit(s, p) ==
    IF p <= Len(s) /\ s[p].tok = "Literal" THEN Parsed(s[p].lit, p + 1)
    ELSE Failed(p, "expected literal")

\* <Token![=] as Parse>::parse and <Token![,] as Parse>::parse
ParsePunct(s, p, ch) ==
    IF p <= Len(s) /\ s[p].tok = "Punct" /\ s[p].ch = ch THEN Parsed(ch, p + 1)
    ELSE Failed(p, "expected punctuation")

\* try_parse, were T parsed on the stream itself instead of on a fork.
try_parse_unforked(p, forked) ==
    IF forked.ok
    THEN [ok |-> TRUE, val |-> forked.val, pos |-> forked.pos, fork |-> forked.pos]
    ELSE [ok |-> FALSE, pos |-> forked.pos, msg |-> forked.msg, fork |-> forked.pos]

\* TryParseExt::try_parse on a stream at position p, given what fork.parse()
\* returned: advance to the fork on success, stay at p on failure.
try_parse(p, forked) ==
    IF forked.ok
    THEN [ok |-> TRUE, val |-> forked.val, pos |-> forked.pos, fork |-> forked.pos]
    ELSE [ok |-> FALSE, pos |-> p, msg |-> forked.msg, fork |-> forked.pos]

RECURSIVE ParseValue_(_, _)
RECURSIVE ParseExpr(_, _)
RECURSIVE ParseList(_, _)
RECURSIVE parse_terminated(_, _, _)

\* impl Parse for Expr
ParseExpr(s, p) ==
    LET ident == ParseIdent(s, p)
    IN  IF ~ident.ok THEN ident
        ELSE LET eq_token == ParsePunct(s, ident.pos, "=")
             IN  IF ~eq_token.ok THEN eq_token
                 ELSE LET value == ParseValue_(s, eq_token.pos)
                      IN  IF ~value.ok THEN value
                          ELSE Parsed(Expr(ident.val, value.val), value.pos)

\* impl Parse for List: parenthesized! steps over the group, whose stream is
\* then parsed as Values.
ParseList(s, p) ==
    LET ident == ParseIdent(s, p)
    IN  IF ~ident.ok THEN ident
        ELSE IF ~(ident.pos <= Len(s) /\ s[ident.pos].tok = "Group"
                    /\ s[ident.pos].delim = "Paren")
        THEN Failed(ident.pos, "expected parentheses")
        ELSE LET values == parse_terminated(s[ident.pos].stream, 1, << >>)
             IN  IF ~values.ok THEN Failed(ident.pos + 1, values.msg)
                 ELSE Parsed(List(ident.val, values.val), ident.pos + 1)

\* The alternatives of Value::parse, each with the Value variant it builds.
ParseLitValue(s, p) ==
    LET r == ParseLit(s, p) IN IF r.ok THEN Parsed(Lit(r.val), r.pos) ELSE r

ParseIdentValue(s, p) ==
    LET r == ParseIdent(s, p) IN IF r.ok THEN Parsed(Ident(r.val), r.pos) ELSE r

\* impl Parse for Value
ParseValue_(s, p) ==
    LET expr == try_parse(p, ParseExpr(s, p))
    IN  IF expr.ok THEN Parsed(expr.val, expr.pos)
        ELSE LET list == try_parse(expr.pos, ParseList(s, expr.pos))
             IN  IF list.ok THEN Parsed(list.val, list.pos)
                 ELSE LET lit == try_parse(list.pos, ParseLitValue(s, list.pos))
                      IN  IF lit.ok THEN Parsed(lit.val, lit.pos)
                          ELSE LET ident == try_parse(lit.pos, ParseIdentValue(s, lit.pos))
                               IN  IF ident.ok THEN Parsed(ident.val, ident.pos)
                                   ELSE Failed(ident.pos, "type is not supported")

\* ParseBuffer::parse_terminated(Value::parse, Token![,]): values separated
\* by commas until the stream is empty; a trailing comma is allowed.
parse_terminated(s, p, acc) ==
    IF p > Len(s) THEN Parsed(acc, p)
    ELSE LET value == ParseValue_(s, p)
         IN  IF ~value.ok THEN value
             ELSE IF value.pos > Len(s) THEN Parsed(Append(acc, value.val), value.pos)
             ELSE LET punct == ParsePunct(s, value.pos, ",")
                  IN  IF ~punct.ok THEN punct
                      ELSE parse_terminated(s, punct.pos, Append(acc, value.val))

(***************************************************************************)
(* Values::parse on the top-level stream, one step per try_parse of        *)
(* Value::parse and per separator of parse_terminated.                     *)
(***************************************************************************)
Int1 == TLit(LitInt(FALSE, <<1>>))

GroupBodies ==
    { << >>,
      <<Int1>>,
      <<TIdent("a"), TPunct("="), Int1>>,
      <<TPunct("#")>>,
      <<Int1, TPunct(",")>> }

TokenUniverse ==
    {TIdent("a"), TPunct("="), TPunct(","), Int1, TPunct("#")}
        \cup {TGroup(body) : body \in GroupBodies}

InitParse ==
    /\ tokens \in BoundedSeq(TokenUniverse, MaxTokens)
    /\ cursor = 1
    /\ alternative = "value"
    /\ fork = None
    /\ parsed = << >>
    /\ outcome = None
    /\ IdleBind
    /\ IdleCombine
    /\ IdleDym
    /\ IdleConvert
    /\ IdleExpand
    /\ IdlePermute
    /\ IdleExtract

\* parse_terminated: the stream is empty, the values are returned
Finish ==
    /\ alternative = "value"
    /\ cursor > Len(tokens)
    /\ outcome' = Some(Ok(parsed))
    /\ alternative' = "done"
    /\ fork' = None
    /\ UNCHANGED <<tokens, cursor, parsed, bindVars, combineVars, dymVars,
                 convertVars, expandVars, permuteVars, extractVars>>

\* Begin, were the bare identifier tried first.
Begin_identFirst ==
    /\ alternative = "value"
    /\ cursor <= Len(tokens)
    /\ alternative' = "Ident"
    /\ fork' = None
    /\ UNCHANGED <<tokens, cursor, parsed, outcome, bindVars, combineVars, dymVars,
                 convertVars, expandVars, permuteVars, extractVars>>

\* parse_terminated calls Value::parse
Begin ==
    /\ alternative = "value"
    /\ cursor <= Len(tokens)
    /\ alternative' = "Expr"
    /\ fork' = None
    /\ UNCHANGED <<tokens, cursor, parsed, outcome, bindVars, combineVars, dymVars,
                 convertVars, expandVars, permuteVars, extractVars>>

\* What an if-let of Value::parse does with r, the result of its try_parse.
Attempt(r, otherwise) ==
    /\ fork' = Some([alt |-> alternative, start |-> cursor, ok |-> r.ok,
                     end |-> r.fork])
    /\ cursor' = r.pos
    /\ parsed' = IF r.ok THEN Append(parsed, r.val) ELSE parsed
    /\ alternative' = IF r.ok THEN "punct" ELSE otherwise

TryExpr ==
    /\ alternative = "Expr"
    /\ Attempt(try_parse(cursor, ParseExpr(tokens, cursor)), "List")
    /\ UNCHANGED <<tokens, outcome, bindVars, combineVars, dymVars,
                 convertVars, expandVars, permuteVars, extractVars>>

TryList ==
    /\ alternative = "List"
    /\ Attempt(try_parse(cursor, ParseList(tokens, cursor)), "Lit")
    /\ UNCHANGED <<tokens, outcome, bindVars, combineVars, dymVars,
                 convertVars, expandVars, permuteVars, extractVars>>

TryLit ==
    /\ alternative = "Lit"
    /\ Attempt(try_parse(cursor, ParseLitValue(tokens, cursor)), "Ident")
    /\ UNCHANGED <<tokens, outcome, bindVars, combineVars, dymVars,
                 convertVars, expandVars, permuteVars, extractVars>>

TryIdent ==
    /\ alternative = "Ident"
    /\ Attempt(try_parse(cursor, ParseIdentValue(tokens, cursor)), "none")
    /\ UNCHANGED <<tokens, outcome, bindVars, combineVars, dymVars,
                 convertVars, expandVars, permuteVars, extractVars>>

\* Err(input.error("type is not supported"))
Unsupported ==
    /\ alternative = "none"
    /\ outcome' = Some(Err([pos |-> cursor, msg |-> "type is not supported"]))
    /\ alternative' = "done"
    /\ UNCHANGED <<tokens, cursor, fork, parsed, bindVars, combineVars, dymVars,
                 convertVars, expandVars, permuteVars, extractVars>>

\* parse_terminated after a value: stop at the end of the stream, else a
\* comma must follow
Separator ==
    /\ alternative = "punct"
    /\ LET punct == ParsePunct(tokens, cursor, ",")
       IN  IF cursor > Len(tokens)
           THEN /\ outcome' = Some(Ok(parsed))
                /\ alternative' = "done"
                /\ cursor' = cursor
           ELSE IF punct.ok
           THEN /\ outcome' = outcome
                /\ alternative' = "value"
                /\ cursor' = punct.pos
           ELSE /\ outcome' = Some(Err([pos |-> cursor, msg |-> punct.msg]))
                /\ alternative' = "done"
                /\ cursor' = cursor
    /\ fork' = None
    /\ UNCHANGED <<tokens, parsed, bindVars, combineVars, dymVars,
                 convertVars, expandVars, permuteVars, extractVars>>

NextParse ==
    \/ Begin
    \/ TryExpr
    \/ TryList
    \/ TryLit
    \/ TryIdent
    \/ Unsupported
    \/ Separator
    \/ Finish

SpecParse == InitParse /\ [][NextParse]_vars

(***************************************************************************)
(* ParseValueExt::parse::<T> as an operation of its own: one value, found  *)
(* at the first top-level position, converted to one target type.          *)
(***************************************************************************)
\* Integer literals: the limits of every type, their neighbours outside the
\* range, zero with either sign, and a small number with either sign.
IntLiterals ==
    UNION { { LitInt(FALSE, IntegerRange(ty).max),
              LitInt(FALSE, DigitsSucc(IntegerRange(ty).max)),
              LitInt(TRUE, IntegerRange(ty).min),
              LitInt(TRUE, DigitsSucc(IntegerRange(ty).min)) } : ty \in IntegerTypes }
        \cup {LitInt(FALSE, <<0>>), LitInt(FALSE, <<5>>), LitInt(TRUE, <<5>>)}

IntegerInputs ==
    { [ty |-> TyPath(<<ty>>, << >>), value |-> v, by |-> "core"] :
        ty \in IntegerTypes,
        v \in {Lit(l) : l \in IntLiterals} \cup {Expr("n", Lit(l)) : l \in IntLiterals} }

\* Values of every shape, for the scalar conversions.
ShapeLiterals ==
    { LitStr("a"), LitBool(TRUE), LitBool(FALSE), LitInt(FALSE, <<5>>),
      LitFloat(FALSE, <<1>>, <<5>>) }

ShapeValues ==
    {Lit(l) : l \in ShapeLiterals}
        \cup {Expr("k", Lit(l)) : l \in ShapeLiterals}
        \cup { Ident("k"), Expr("k", Ident("x")), Expr("k", List("x", << >>)),
               List("k", << >>), List("k", <<Lit(LitStr("a"))>>),
               List("k", <<Lit(LitBool(TRUE))>>) }

ScalarInputs ==
    { [ty |-> TyPath(<<ty>>, << >>), value |-> v, by |-> "core"] :
        ty \in {"bool", "String", "Lit", "u8"}, v \in ShapeValues }
        \cup { [ty |-> TyPath(<<ty>>, << >>), value |-> v, by |-> "internals"] :
                 ty \in {"bool", "String"}, v \in ShapeValues }

\* Lists of up to MaxElems elements, for the Vec conversions.
ElementUniverse ==
    { Lit(LitStr("a")), Lit(LitStr("b")), Lit(LitInt(FALSE, <<5>>)),
      Lit(LitInt(FALSE, <<3, 0, 0>>)), Lit(LitBool(TRUE)),
      Lit(LitFloat(FALSE, <<1>>, <<5>>)), Ident("x"),
      Expr("k", Lit(LitStr("a"))), Expr("k", Lit(LitInt(FALSE, <<5>>))) }

VecInputs ==
    { [ty |-> TyPath(<<"Vec">>, <<TyPath(<<elem>>, << >>)>>),
       value |-> List("k", vs), by |-> "core"] :
        elem \in {"String", "u8", "Lit"},
        vs \in BoundedSeq(ElementUniverse, MaxElems) }

\* Values for the nested records Sub, Req and Parent.
SubValues ==
    { Expr("flag", Lit(LitBool(TRUE))), Expr("flag", Lit(LitBool(FALSE))),
      Ident("flag"), Expr("label", Lit(LitStr("a"))), Ident("flga"),
      Lit(LitInt(FALSE, <<5>>)) }

ReqValues ==
    { Expr("count", Lit(LitInt(FALSE, <<5>>))), Expr("count", Lit(LitStr("x"))),
      Ident("flag") }

TaggedValues ==
    { Ident("kind"), Ident("some_ident"), Ident("other"),
      Expr("kind", Ident("other")), Expr("some_ident", Lit(LitStr("other"))),
      List("kind", <<Ident("other")>>), Lit(LitStr("kind")) }

ParentValues ==
    {List("sub", vs) : vs \in BoundedSeq(SubValues, 1)}
        \cup {List("req", vs) : vs \in BoundedSeq(ReqValues, 1)}
        \cup {Ident("sub"), Expr("req", Lit(LitInt(FALSE, <<5>>)))}

NestedInputs ==
    { [ty |-> TyPath(<<"Sub">>, << >>), value |-> v, by |-> "core"] :
        v \in {List("sub", vs) : vs \in BoundedSeq(SubValues, MaxNested)}
                \cup {Ident("sub"), Expr("sub", Lit(LitBool(TRUE)))} }
        \cup { [ty |-> TyPath(<<"Req">>, << >>), value |-> v, by |-> "core"] :
                 v \in {List("req", vs) : vs \in BoundedSeq(ReqValues, MaxNested)}
                         \cup {Ident("req"), Expr("req", Lit(LitInt(FALSE, <<5>>)))} }
        \cup { [ty |-> TyPath(<<"Parent">>, << >>), value |-> List("parent", vs),
                by |-> "core"] :
                 vs \in BoundedSeq(ParentValues, MaxNested) }
        \cup { [ty |-> TyPath(<<"Tagged">>, << >>), value |-> List("tagged", vs),
                by |-> "core"] :
                 vs \in BoundedSeq(TaggedValues, MaxNested) }

\* Number literals for the float types: small integers, the integers around
\* 2^53 and 2^24, and floats with and without digits after the point.
FloatLiterals ==
    UNION { { LitInt(FALSE, ExactLimit(ty)),
              LitInt(FALSE, DigitsSucc(ExactLimit(ty))),
              LitInt(TRUE, DigitsSucc(ExactLimit(ty))),
              LitInt(FALSE, DigitsSucc(DigitsSucc(ExactLimit(ty)))),
              LitInt(FALSE, DigitsSucc(DigitsSucc(DigitsSucc(ExactLimit(ty))))) } :
            ty \in FloatTypes }
        \cup { LitInt(FALSE, <<1, 2, 3, 4>>), LitInt(FALSE, <<0>>), LitInt(TRUE, <<5>>),
               LitFloat(FALSE, <<1>>, <<5>>), LitFloat(TRUE, <<1>>, <<5>>),
               LitFloat(FALSE, <<1, 2, 3, 4>>, <<0>>), LitFloat(FALSE, <<5>>, << >>) }

FloatInputs ==
    { [ty |-> TyPath(<<ty>>, << >>), value |-> v, by |-> "core"] :
        ty \in FloatTypes,
        v \in {Lit(l) : l \in FloatLiterals} \cup {Expr("n", Lit(l)) : l \in FloatLiterals}
                \cup ShapeValues }

ConvertInputs ==
    IntegerInputs \cup FloatInputs \cup ScalarInputs \cup VecInputs \cup NestedInputs

\* where the converted value is found
ConvSpan == <<1>>

InitConvert ==
    /\ \E in \in ConvertInputs :
          /\ convTy = in.ty
          /\ convValue = in.value
          /\ convBy = in.by
    /\ convResult = None
    /\ IdleBind
    /\ IdleCombine
    /\ IdleDym
    /\ IdleParse
    /\ IdleExpand
    /\ IdlePermute
    /\ IdleExtract

\* value.parse::<T>() with the impl ParseValue of core
Convert ==
    /\ convBy = "core"
    /\ ~convResult.some
    /\ convResult' = Some(ParseAny(convTy, convValue, ConvSpan))
    /\ UNCHANGED <<convTy, convValue, convBy, bindVars, combineVars, dymVars,
                   parseVars, expandVars, permuteVars, extractVars>>

\* value.parse::<T>() with the impl ParseValue of internals
ConvertInternals ==
    /\ convBy = "internals"
    /\ ~convResult.some
    /\ convResult' = Some(InternalsParseValue(convTy, convValue, ConvSpan))
    /\ UNCHANGED <<convTy, convValue, convBy, bindVars, combineVars, dymVars,
                   parseVars, expandVars, permuteVars, extractVars>>

NextConvert == Convert \/ ConvertInternals

SpecConvert == InitConvert /\ [][NextConvert]_vars

(***************************************************************************)
(* Properties of from_values (specification Spec).                         *)
(***************************************************************************)
RECURSIVE Concat(_)
\* the entries of a vector of errors, in order
Concat(errs) == IF errs = << >> THEN << >> ELSE Head(errs) \o Concat(Tail(errs))

\* how many recorded entries carry the message msg
EntryCount(msg) ==
    LET entries == Concat(errors)
    IN  Cardinality({k \in 1..Len(entries) : entries[k].msg = msg})

\* the positions of the values taken so far whose identifier is id
Occurrences(id) == {i \in 1..Len(input) : identifier(input[i]) = Some(id)}

\* the conversion of the i-th value taken for the field it names
Conversion(i) ==
    ParseValue(SlotType(FieldOf(identifier(input[i]).val)), input[i], <<i>>)

\* The fields of the Widget record that are neither Option nor bool.
RequiredNames == {"count", "name", "tags"}

\* C1: from_values returns a record exactly when no diagnostic was recorded
\* by the scan and the required checks; otherwise it fails, and the error it
\* returns holds the entries of every recorded diagnostic, in order.
C1_RecordIffNoDiagnostic ==
    pc = "done" =>
        /\ result.some
        /\ result.val.ok <=> errors = << >>
        /\ errors # << >> => result.val.err = Concat(errors)

\* C1 witness: every required slot is filled, a diagnostic was recorded all
\* the same, and from_values failed.
C1_Witness ==
    /\ pc = "done"
    /\ \A f \in RequiredNames : slots[f].some
    /\ errors # << >>
    /\ ~result.val.ok

\* C2 as stated: whenever a field identifier was supplied twice, exactly one
\* duplicate-entry diagnostic is recorded for it and the slot holds the value
\* of the first occurrence.
C2_Original ==
    \A f \in FieldNames :
        LET occ == Occurrences(f)
        IN  Cardinality(occ) = 2 =>
                LET converted == Conversion(SetMin(occ))
                IN  /\ EntryCount(<<"duplicate entry for", f>>) = 1
                    /\ converted.ok
                    /\ slots[f] = Some(converted.val)

\* C2 amended: whenever a field identifier was supplied twice and its first
\* occurrence converted, exactly one duplicate-entry diagnostic is recorded
\* for it, at the second occurrence, and the slot holds the value of the
\* first occurrence.
C2_DuplicateKeepsFirst ==
    \A f \in FieldNames :
        LET occ == Occurrences(f)
            first == SetMin(occ)
            second == CHOOSE i \in occ : i # first
            converted == Conversion(first)
        IN  (Cardinality(occ) = 2 /\ converted.ok) =>
                /\ EntryCount(<<"duplicate entry for", f>>) = 1
                /\ \E k \in 1..Len(errors) :
                      errors[k] = NewError(<<second>>, <<"duplicate entry for", f>>)
                /\ slots[f] = Some(converted.val)

\* C2 witness: count = 5, count = 6 leaves 5 in the slot.
C2_Witness ==
    /\ input = <<Expr("count", Lit(LitInt(FALSE, <<5>>))),
                 Expr("count", Lit(LitInt(FALSE, <<6>>)))>>
    /\ slots["count"] = Some(IntVal(FALSE, <<5>>))
    /\ Len(errors) = 1

\* C3: after the scan every required field whose slot is empty has exactly
\* one required-key diagnostic, anchored at the location of the values, and
\* no other field has one; with no value supplied there is one per required
\* field.
C3_OneMissingKeyPerEmptyRequiredSlot ==
    pc \in {"combine", "done"} =>
        /\ \A f \in FieldNames :
              EntryCount(<<"required key not found", f>>)
                  = (IF f \in RequiredNames /\ ~slots[f].some THEN 1 ELSE 0)
        /\ LET entries == Concat(errors)
           IN  \A k \in 1..Len(entries) :
                   entries[k].msg[1] = "required key not found"
                       => entries[k].span = ValuesSpan(<< >>, Len(input))
        /\ input = << >> => Len(errors) = Cardinality(RequiredNames)

\* C3 witness: count was supplied, its conversion failed, and count is
\* reported missing.
C3_Witness ==
    /\ pc = "combine"
    /\ input = <<Expr("count", Lit(LitStr("x")))>>
    /\ EntryCount(<<"required key not found", "count">>) = 1

\* The names the Widget record declares.
DeclaredNames == {"count", "name", "tags", "enabled", "note"}

\* the value at the first occurrence of id
FirstValue(id) == input[SetMin(Occurrences(id))]

ErrorsAt(i) ==
    {k \in 1..Len(errors) :
        /\ errors[k][1].span = <<i>>
        /\ errors[k][1].msg[1] # "required key not found"}

\* the fuzzy match over the full set of declared field names, for the
\* identifiers of the inputs that are not declared
FuzzyMatch ==
    [id \in {"coutn", "zzz"} |->
        did_you_mean(<<"count", "name", "tags", "enabled", "note">>, id)]

RightShape(v) ==
    /\ identifier(v).some
    /\ LET id == identifier(v).val
       IN  \/ id = "count" /\ v.kind = "Expr" /\ IsLit(v.value, "Int")
                /\ ~v.value.lit.neg /\ Len(v.value.lit.digits) < 10
           \/ id \in {"name", "note"} /\ v.kind = "Expr" /\ IsLit(v.value, "Str")
           \/ id = "tags" /\ v.kind = "List"
                /\ \A j \in 1..Len(v.values) : IsLit(v.values[j], "Str")
           \/ id = "enabled"
                /\ (v.kind = "Ident" \/ (v.kind = "Expr" /\ IsLit(v.value, "Bool")))

\* what a value of the right shape supplies
Supplied(v) ==
    CASE v.kind = "Ident" -> BoolVal(TRUE)
      [] v.kind = "List" -> VecVal([j \in 1..Len(v.values) |-> StrVal(v.values[j].lit.s)])
      [] v.kind = "Expr" /\ IsLit(v.value, "Int") ->
            IntVal(FALSE, v.value.lit.digits)
      [] v.kind = "Expr" /\ IsLit(v.value, "Str") -> StrVal(v.value.lit.s)
      [] v.kind = "Expr" /\ IsLit(v.value, "Bool") -> BoolVal(v.value.lit.b)

WellFormed ==
    /\ \A i \in 1..Len(input) : RightShape(input[i])
    /\ \A i, j \in 1..Len(input) :
          identifier(input[i]) = identifier(input[j]) => i = j
    /\ \A f \in RequiredNames : Occurrences(f) # {}

\* the record a well-formed input asks for
Expected ==
    [f \in DeclaredNames |->
        IF Occurrences(f) = {}
        THEN (IF f = "enabled" THEN BoolVal(FALSE) ELSE None)
        ELSE IF f = "note" THEN Some(Supplied(FirstValue(f)))
        ELSE Supplied(FirstValue(f))]

\* C6: an input whose values have the right shape, name declared fields, do
\* not repeat an identifier and cover the required fields binds to the record
\* holding exactly the supplied values, omitted optional fields absent and
\* omitted boolean fields false; count = 5, name = "widget", tags("a", "b"),
\* enabled gives {count: 5, name: "widget", tags: ["a", "b"], enabled: true}.
C6_WellFormedInputBinds ==
    /\ (pc = "done" /\ WellFormed) => result = Some(Ok(Expected))
    /\ (/\ pc = "done"
        /\ input = <<Expr("count", Lit(LitInt(FALSE, <<5>>))),
                     Expr("name", Lit(LitStr("widget"))),
                     List("tags", <<Lit(LitStr("a")), Lit(LitStr("b"))>>),
                     Ident("enabled")>>)
          => result = Some(Ok([count |-> IntVal(FALSE, <<5>>),
                               name |-> StrVal("widget"),
                               tags |-> VecVal(<<StrVal("a"), StrVal("b")>>),
                               enabled |-> BoolVal(TRUE),
                               note |-> None]))

\* C6 witness: from_values returned the record of the scenario.
C6_Witness ==
    /\ pc = "done"
    /\ input = <<Expr("count", Lit(LitInt(FALSE, <<5>>))),
                 Expr("name", Lit(LitStr("widget"))),
                 List("tags", <<Lit(LitStr("a")), Lit(LitStr("b"))>>),
                 Ident("enabled")>>
    /\ result.val.ok

(***************************************************************************)
(* Properties of combine (specification SpecCombine).                      *)
(***************************************************************************)
\* C7: combine returns none for no errors, the error itself for one, and
\* otherwise one error that starts with the entries of the first error and
\* whose entries are those of all the errors, concatenated in order.
C7_CombineConcatenates ==
    combined.some =>
        /\ diagnostics = << >> => combined.val = None
        /\ Len(diagnostics) = 1 => combined.val = Some(diagnostics[1])
        /\ Len(diagnostics) >= 1 =>
              /\ combined.val.some
              /\ combined.val.val = Concat(diagnostics)
              /\ SubSeq(combined.val.val, 1, Len(diagnostics[1])) = diagnostics[1]

\* C7 witness: three errors were combined, the second with two entries.
C7_Witness ==
    /\ combined.some
    /\ Len(diagnostics) = 3
    /\ Len(diagnostics[2]) = 2
    /\ diagnostics[1] # diagnostics[3]
    /\ combined.val.some
    /\ Len(combined.val.val) >= 4

(***************************************************************************)
(* Properties of did_you_mean (specification SpecDym).                     *)
(***************************************************************************)
\* x > y on scores, for the statements below
Exceeds(x, y) == FracLess(y.num, y.den, x.num, x.den)

\* the similarity of the i-th option and the given string
Score(i) ==
    IF scoreOf # << >> THEN scoreOf[optionsArg[i]]
    ELSE jaro_winkler(optionsArg[i], givenArg)

\* C8: did_you_mean returns the earliest option of maximal similarity if
\* that similarity is strictly greater than 0.8, and none if it is not or if
\* there are no options; on the strings of the crate's tests, hllo wrd gives
\* hello, world and hi munbar gives none.
C8_DidYouMeanBestAboveThreshold ==
    suggestion.some =>
        /\ IF Len(optionsArg) = 0 THEN suggestion.val = None
           ELSE LET best == {i \in 1..Len(optionsArg) :
                                \A j \in 1..Len(optionsArg) : ~Exceeds(Score(j), Score(i))}
                    k == SetMin(best)
                IN  IF Exceeds(Score(k), Frac(8, 10))
                    THEN suggestion.val = Some(optionsArg[k])
                    ELSE suggestion.val = None
        /\ (optionsArg = <<"hola, mundo", "hello, world", "foobar">>
              /\ givenArg = "hllo wrd") => suggestion.val = Some("hello, world")
        /\ (optionsArg = <<"hola, mundo", "hello, world", "foobar">>
              /\ givenArg = "hi munbar") => suggestion.val = None

\* C8 witness: two options tie above the threshold and the first is returned.
C8_Witness ==
    /\ suggestion.some
    /\ scoreOf # << >>
    /\ optionsArg = <<"a", "b">>
    /\ scoreOf["a"] = Frac(9, 10)
    /\ scoreOf["b"] = Frac(9, 10)
    /\ suggestion.val = Some("a")

(***************************************************************************)
(* Properties of the parser (specification SpecParse).                     *)
(***************************************************************************)
\* The four shapes of a Value at position p of the stream.
ShapeExpr(p) ==
    /\ p + 1 <= Len(tokens)
    /\ tokens[p].tok = "Ident"
    /\ tokens[p + 1] = TPunct("=")
    /\ ParseValue_(tokens, p + 2).ok

ShapeList(p) ==
    /\ p + 1 <= Len(tokens)
    /\ tokens[p].tok = "Ident"
    /\ tokens[p + 1].tok = "Group"
    /\ parse_terminated(tokens[p + 1].stream, 1, << >>).ok

ShapeLit(p) == p <= Len(tokens) /\ tokens[p].tok = "Literal"

ShapeIdent(p) == p <= Len(tokens) /\ tokens[p].tok = "Ident"

\* p is where parse_terminated starts a Value
ValueStart(p) == p = 1 \/ (p - 1 <= Len(tokens) /\ tokens[p - 1] = TPunct(","))

\* C9: the Value parsed is of the first of Expr, List, Lit, Ident whose shape
\* the stream has at the position; an alternative is chosen only if all
\* earlier ones failed; if none succeeds the parse fails with "type is not
\* supported" at the position where the Value started.
C9_FirstAlternativeWins ==
    /\ (fork.some /\ fork.val.ok) =>
          LET a == fork.val.alt
              p == fork.val.start
          IN  /\ Last(parsed).kind = a
              /\ ValueStart(p)
              /\ a = "Expr" => ShapeExpr(p)
              /\ a = "List" => ShapeList(p) /\ ~ShapeExpr(p)
              /\ a = "Lit" => ShapeLit(p) /\ ~ShapeList(p) /\ ~ShapeExpr(p)
              /\ a = "Ident" =>
                    ShapeIdent(p) /\ ~ShapeLit(p) /\ ~ShapeList(p) /\ ~ShapeExpr(p)
    /\ (outcome.some /\ ~outcome.val.ok /\ outcome.val.err.msg = "type is not supported") =>
          LET p == outcome.val.err.pos
          IN  /\ fork = Some([alt |-> "Ident", start |-> p, ok |-> FALSE, end |-> p])
              /\ ValueStart(p)
              /\ ~ShapeExpr(p) /\ ~ShapeList(p) /\ ~ShapeLit(p) /\ ~ShapeIdent(p)
    /\ (alternative = "value" /\ cursor <= Len(tokens)
          /\ ~ShapeExpr(cursor) /\ ~ShapeList(cursor)
          /\ ~ShapeLit(cursor) /\ ~ShapeIdent(cursor))
          => ~ParseValue_(tokens, cursor).ok
    /\ (alternative = "done" /\ tokens = <<TIdent("a"), TPunct("="), Int1>>)
          => outcome = Some(Ok(<<Expr("a", Lit(LitInt(FALSE, <<1>>)))>>))
    /\ (alternative = "done" /\ tokens = <<TIdent("a"), TGroup(<<Int1>>)>>)
          => outcome = Some(Ok(<<List("a", <<Lit(LitInt(FALSE, <<1>>))>>)>>))
    /\ (alternative = "done" /\ tokens = <<Int1, TPunct(","), TIdent("a")>>)
          => outcome = Some(Ok(<<Lit(LitInt(FALSE, <<1>>)), Ident("a")>>))

\* C9 witness: the bare identifier was chosen for a = # after Expr, which
\* read past the identifier, List and Lit had failed.
C9_Witness ==
    /\ fork.some
    /\ fork.val.ok
    /\ fork.val.alt = "Ident"
    /\ fork.val.start + 1 <= Len(tokens)
    /\ tokens[fork.val.start + 1] = TPunct("=")

\* C9 witness of the failure: no alternative parsed the second Value.
C9_WitnessUnsupported ==
    /\ outcome.some
    /\ ~outcome.val.ok
    /\ outcome.val.err.msg = "type is not supported"
    /\ outcome.val.err.pos > 1

RECURSIVE TokenCount(_)
\* the number of token trees of the stream a Value is written with
TokenCount(value) ==
    CASE value.kind = "Expr"  -> 2 + TokenCount(value.value)
      [] value.kind = "List"  -> 2
      [] value.kind = "Lit"   -> 1
      [] value.kind = "Ident" -> 1

\* C10: after a try_parse that failed the stream is where it was before the
\* attempt, however far the fork had read; after one that succeeded it is
\* where the fork stopped, exactly past the tokens of the Value parsed.
C10_TryParseRestoresPosition ==
    fork.some =>
        IF fork.val.ok
        THEN /\ cursor = fork.val.end
             /\ fork.val.end - fork.val.start = TokenCount(Last(parsed))
        ELSE cursor = fork.val.start

\* C10 witness: a failed attempt whose fork had read two tokens or more.
C10_Witness ==
    /\ fork.some
    /\ ~fork.val.ok
    /\ fork.val.end >= fork.val.start + 2
    /\ cursor = fork.val.start

(***************************************************************************)
(* Properties of the conversions (specification SpecConvert).              *)
(***************************************************************************)
\* the name of the target type
ConvName == Last(convTy.segments)

\* An integer literal, bare or as the right-hand side of an Expr, was
\* converted to an integer type by core.
IntegerCase ==
    /\ convResult.some
    /\ convBy = "core"
    /\ ConvName \in IntegerTypes
    /\ \/ IsLit(convValue, "Int")
       \/ convValue.kind = "Expr" /\ IsLit(convValue.value, "Int")

\* the literal of an IntegerCase
ConvLit == IF convValue.kind = "Expr" THEN convValue.value.lit ELSE convValue.lit

\* the number lit denotes lies between MIN and MAX of ty
InRange(ty, lit) ==
    IF lit.neg
    THEN \/ lit.digits = <<0>>
         \/ IntegerRange(ty).signed /\ DigitsLeq(lit.digits, IntegerRange(ty).min)
    ELSE DigitsLeq(lit.digits, IntegerRange(ty).max)

\* the number lit denotes
OwnValue(lit) == IntVal(lit.neg /\ lit.digits # <<0>>, lit.digits)

\* -0 for an unsigned type
NegatedZeroUnsigned(ty, lit) ==
    lit.neg /\ lit.digits = <<0>> /\ ~IntegerRange(ty).signed

\* C11 as stated: every integer literal inside the range of the target type,
\* its minimum and maximum included, converts to its own value, and every
\* literal outside the range fails.
C11_Original ==
    IntegerCase =>
        IF InRange(ConvName, ConvLit)
        THEN convResult.val = Ok(OwnValue(ConvLit))
        ELSE ~convResult.val.ok

\* C11 amended: every integer literal inside the range of the target type,
\* its minimum and maximum included, converts to its own value, except that
\* a negated zero fails for an unsigned type; every literal outside the range
\* fails.
C11_IntegerRangeExceptNegatedZero ==
    IntegerCase =>
        /\ IF InRange(ConvName, ConvLit) /\ ~NegatedZeroUnsigned(ConvName, ConvLit)
           THEN convResult.val = Ok(OwnValue(ConvLit))
           ELSE ~convResult.val.ok
        /\ ConvLit = LitInt(FALSE, IntegerRange(ConvName).max)
              => convResult.val = Ok(IntVal(FALSE, IntegerRange(ConvName).max))
        /\ (IntegerRange(ConvName).signed
              /\ ConvLit = LitInt(TRUE, IntegerRange(ConvName).min))
              => convResult.val = Ok(IntVal(TRUE, IntegerRange(ConvName).min))
        /\ ConvLit = LitInt(FALSE, DigitsSucc(IntegerRange(ConvName).max))
              => ~convResult.val.ok

\* C11 witness: 255, the maximum of u8, was converted to u8.
C11_Witness ==
    /\ convTy = TyPath(<<"u8">>, << >>)
    /\ convValue = Expr("n", Lit(LitInt(FALSE, <<2, 5, 5>>)))
    /\ convResult = Some(Ok(IntVal(FALSE, <<2, 5, 5>>)))

\* A List was converted to a collection by core.
VecCase ==
    /\ convResult.some
    /\ convBy = "core"
    /\ ConvName = "Vec"
    /\ convValue.kind = "List"

\* what the conversion gives for the list holding the j-th element alone
ElementAlone(j) ==
    ParseValue(convTy, List(convValue.ident, <<convValue.values[j]>>), ConvSpan)

\* the positions of the elements that fail, in order
FailingElements ==
    SelectSeq([j \in 1..Len(convValue.values) |-> j],
              LAMBDA j : ~ElementAlone(j).ok)

\* C12: a List converted to a collection yields, when any element fails, an
\* error with one entry for every failing element, in the order of the
\* elements, and otherwise the collection of all converted elements in order.
C12_AllElementFailuresCombined ==
    VecCase =>
        IF FailingElements = << >>
        THEN /\ convResult.val.ok
             /\ convResult.val.val =
                    VecVal([j \in 1..Len(convValue.values) |->
                               ElementAlone(j).val.items[1]])
        ELSE /\ ~convResult.val.ok
             /\ Len(convResult.val.err) = Len(FailingElements)
             /\ \A k \in 1..Len(FailingElements) :
                   /\ convResult.val.err[k].span =
                          ChildSpan(ConvSpan, FailingElements[k])
                   /\ convResult.val.err[k].msg =
                          ElementAlone(FailingElements[k]).err[1].msg

\* the element type of the collection
ElemName == Last(convTy.args[1].segments)

\* what the scalar conversion for the element type gives for the j-th element
ScalarOf(j) ==
    ParseValue(convTy.args[1], convValue.values[j], ChildSpan(ConvSpan, j))

BareLiteralOf(ty, v) ==
    /\ v.kind = "Lit"
    /\ CASE ty = "String" -> v.lit.kind = "Str"
         [] ty = "Lit" -> TRUE
         [] ty \in IntegerTypes ->
               /\ v.lit.kind \in {"Int", "Float"}
               /\ v.lit.kind = "Float" => v.lit.frac = << >>
               /\ InRange(ty, v.lit)
               /\ ~NegatedZeroUnsigned(ty, v.lit)

\* the value of the bare literal v as an element of a collection of ty
BareLiteralValue(ty, v) ==
    CASE ty = "String" -> StrVal(v.lit.s)
      [] ty = "Lit" -> LitVal(v.lit)
      [] ty \in IntegerTypes -> OwnValue(v.lit)

StringCase == convResult.some /\ ConvName = "String"

\* the result is a type error: one entry, at the value or at the right-hand
\* side of the Expr, whose message names one of the expected kinds
TypeError(res, kinds) ==
    /\ ~res.ok
    /\ Len(res.err) = 1
    /\ res.err[1].span \in {ConvSpan, ChildSpan(ConvSpan, 1)}
    /\ \E i \in 1..Len(res.err[1].msg) : res.err[1].msg[i] \in kinds
    /\ \E i \in 1..Len(res.err[1].msg) : res.err[1].msg[i] \in {"expected", "expects"}

\* the kinds the String converters name
StringKinds == {"string literal", "a string literal"}

\* C14: an Expr whose right-hand side is a string literal converts to the
\* value of that string; a bare string literal is a type error for the strict
\* converter (core) and converts to its value for the lenient converter
\* (internals); every other shape is a type error for both.
C14_StringStrictAndLenient ==
    StringCase =>
        IF convValue.kind = "Expr" /\ IsLit(convValue.value, "Str")
        THEN convResult.val = Ok(StrVal(convValue.value.lit.s))
        ELSE IF IsLit(convValue, "Str")
        THEN IF convBy = "core"
             THEN TypeError(convResult.val, StringKinds)
             ELSE convResult.val = Ok(StrVal(convValue.lit.s))
        ELSE TypeError(convResult.val, StringKinds)

\* C14 witness: the bare string literal "a" was given to the lenient
\* converter, which took it.
C14_Witness ==
    /\ StringCase
    /\ convBy = "internals"
    /\ convValue = Lit(LitStr("a"))
    /\ convResult = Some(Ok(StrVal("a")))

\* A value was converted to a nested record by core.
NestedCase ==
    /\ convResult.some
    /\ convBy = "core"
    /\ ConvName \in RecordTypes

\* the locations of the List values bound to nested records: the converted
\* List and the Lists directly inside it
ListLocations ==
    {ConvSpan} \cup
        { ChildSpan(ConvSpan, j) : j \in { k \in 1..Len(convValue.values) :
                                              convValue.values[k].kind = "List" } }

\* C15: when a nested record is bound from a List, every "required key not
\* found" diagnostic of the sub-record's binding is anchored at the location
\* of the List itself, not at the location of its inner values; a value that
\* is not a List is a type error.
C15_NestedRequiredAtList ==
    NestedCase =>
        IF convValue.kind = "List"
        THEN convResult.val.ok \/
                \A k \in 1..Len(convResult.val.err) :
                    convResult.val.err[k].msg[1] = "required key not found"
                        => convResult.val.err[k].span \in ListLocations
        ELSE TypeError(convResult.val, {"list of values"})

\* flag = b inside sub(...)
SubFlag(b) == List("sub", <<Expr("flag", Lit(LitBool(b)))>>)

\* every field of the record is optional or boolean
AllOptionalOrBoolean(name) ==
    \A k \in 1..Len(RecordFields(name)) :
        is_optional(RecordFields(name)[k].ty) \/ is_boolean(RecordFields(name)[k].ty)

\* the record with every boolean field false and every optional field absent
EmptyRecord(name) ==
    [f \in {RecordFields(name)[k].ident : k \in 1..Len(RecordFields(name))} |->
        LET field == CHOOSE x \in {RecordFields(name)[k] : k \in 1..Len(RecordFields(name))} :
                         x.ident = f
        IN  IF is_boolean(field.ty) THEN BoolVal(FALSE) ELSE None]

\* C16: nested records bind recursively: parent(sub(flag = b)) gives the
\* parent a sub-record whose flag is b, and an empty list binds to a record
\* whose fields are all optional or boolean, with every boolean field false
\* and every optional field absent, also when it is nested: parent(sub()).
C16_NestedRecordsBind ==
    NestedCase =>
        /\ \A b \in BOOLEAN :
              (ConvName = "Parent" /\ convValue.values = <<SubFlag(b)>>) =>
                  /\ convResult.val.ok
                  /\ convResult.val.val.sub.flag = BoolVal(b)
                  /\ convResult.val.val.sub.label = None
                  /\ convResult.val.val.req = None
        /\ (convValue.kind = "List" /\ convValue.values = << >>
               /\ AllOptionalOrBoolean(ConvName)) =>
                  convResult.val = Ok(EmptyRecord(ConvName))
        /\ (ConvName = "Parent" /\ convValue.values = <<List("sub", << >>)>>) =>
                  /\ convResult.val.ok
                  /\ convResult.val.val.sub = EmptyRecord("Sub")

\* C16 witness: parent(sub(flag = true)) was bound and parent.sub.flag is
\* true.
C16_Witness ==
    /\ NestedCase
    /\ ConvName = "Parent"
    /\ convValue = List("parent", <<SubFlag(TRUE)>>)
    /\ convResult.val.ok
    /\ convResult.val.val.sub.flag = BoolVal(TRUE)

\* parent(sub()) and sub() were bound.
C16_WitnessEmpty ==
    /\ NestedCase
    /\ convValue.kind = "List"
    /\ \/ ConvName = "Sub" /\ convValue.values = << >>
       \/ ConvName = "Parent" /\ convValue.values = <<List("sub", << >>)>>
    /\ convResult.val.ok

(***************************************************************************)
(* More properties of from_values (specification Spec).                    *)
(***************************************************************************)
\* the diagnostics recorded for the j-th value or for a value inside it
DiagnosticsFor(j) ==
    {k \in 1..Len(errors) :
        /\ errors[k][1].span[1] = j
        /\ errors[k][1].msg[1] # "required key not found"}

CallSite == << >>

\* the types of the fields of the declarations
FieldTypes ==
    { TyPath(<<"bool">>, << >>), TyPath(<<"String">>, << >>), TyPath(<<"u32">>, << >>),
      TyPath(<<"primitive", "bool">>, << >>),
      TyPath(<<"std", "primitive", "bool">>, << >>),
      TyPath(<<"foo", "bool">>, << >>),
      TyPath(<<"Option">>, <<TyPath(<<"String">>, << >>)>>),
      TyPath(<<"Option">>, <<TyPath(<<"bool">>, << >>)>>),
      TyPath(<<"option", "Option">>, <<TyPath(<<"String">>, << >>)>>),
      TyPath(<<"std", "option", "Option">>, <<TyPath(<<"String">>, << >>)>>),
      TyPath(<<"foo", "Option">>, <<TyPath(<<"String">>, << >>)>>),
      TyPath(<<"Opt">>, <<TyPath(<<"String">>, << >>)>>),
      [kind |-> "Reference"] }

\* syn::Field of a struct with named fields
NamedFields == [ident : {"count", "name", "flag"}, ty : FieldTypes]

\* syn::Fields: Named (the field names differ), Unnamed and Unit
FieldsUniverse ==
    { [kind |-> "Named", named |-> fs] :
        fs \in { s \in BoundedSeq(NamedFields, MaxFields) :
                    \A i, j \in 1..Len(s) : s[i].ident = s[j].ident => i = j } }
        \cup { [kind |-> "Unnamed", unnamed |-> ts] :
                  ts \in BoundedSeq(FieldTypes, MaxFields) }
        \cup { [kind |-> "Unit"] }

\* The input of the derive macro: a DeriveInput with its syn::Data, or
\* tokens that parse2::<DeriveInput> does not take.
Declarations ==
    { [data |-> "Struct", ident |-> "Widget", fields |-> f] : f \in FieldsUniverse }
        \cup { [data |-> "Enum", ident |-> "Widget"],
               [data |-> "Union", ident |-> "Widget"],
               [data |-> "None"] }

\* expand_named_struct: the impl of Attribute for the record, as the pieces
\* the loop over the fields collects
expand_named_struct(ident, named) ==
    Ok([ impl_for |-> ident,
         field_strs |-> FieldStrs(named),
         variables |->
             [k \in 1..Len(named) |->
                 [ident |-> named[k].ident,
                  ty |-> IF is_optional(named[k].ty) THEN "#ty" ELSE "Option<#ty>"]],
         required_checks |->
             FieldStrs(SelectSeq(named, LAMBDA field : IsRequired(field))),
         struct_fields |->
             [k \in 1..Len(named) |->
                 [ident |-> named[k].ident,
                  value |-> IF is_optional(named[k].ty) THEN "#ident"
                            ELSE IF is_boolean(named[k].ty)
                            THEN "#ident.unwrap_or_default()"
                            ELSE "#ident.expect()"]] ])

\* expand_struct
expand_struct(ident, fields) ==
    CASE fields.kind = "Named" -> expand_named_struct(ident, fields.named)
      [] fields.kind = "Unnamed" ->
            Err(NewError(CallSite, <<"unnamed structs are not supported">>))
      [] fields.kind = "Unit" ->
            Err(NewError(CallSite, <<"unit structs are not supported">>))

\* expand
expand(decl) ==
    CASE decl.data = "None" -> Err(NewError(CallSite, <<"parse2::<DeriveInput>">>))
      [] decl.data = "Struct" -> expand_struct(decl.ident, decl.fields)
      [] decl.data = "Enum" -> Err(NewError(CallSite, <<"enums are not supported">>))
      [] decl.data = "Union" -> Err(NewError(CallSite, <<"unions are not supported">>))

InitExpand ==
    /\ declaration \in {Some(d) : d \in Declarations}
    /\ expanded = None
    /\ IdleBind
    /\ IdleCombine
    /\ IdleDym
    /\ IdleParse
    /\ IdleConvert
    /\ IdlePermute
    /\ IdleExtract

\* the derive macro calls expand on its input
Expand ==
    /\ declaration.some
    /\ ~expanded.some
    /\ expanded' = Some(expand(declaration.val))
    /\ UNCHANGED <<declaration, bindVars, combineVars, dymVars, parseVars,
                   convertVars, permuteVars, extractVars>>

NextExpand == Expand

SpecExpand == InitExpand /\ [][NextExpand]_vars

\* A declaration was expanded.
ExpandCase == declaration.some /\ expanded.some

\* the declaration is a record with named fields, one at least
HasNamedFields(decl) ==
    /\ decl.data = "Struct"
    /\ decl.fields.kind = "Named"
    /\ Len(decl.fields.named) > 0

\* C18: expand rejects enums, unions, tuple structs, unit structs and records
\* with no fields with an error and no binding code; it accepts exactly the
\* records with named fields.
C18_OnlyNamedFieldsAccepted ==
    ExpandCase =>
        IF HasNamedFields(declaration.val)
        THEN expanded.val.ok
        ELSE ~expanded.val.ok

(***************************************************************************)
(* More properties of the conversions (specification SpecConvert).         *)
(***************************************************************************)
\* A value failed to convert to a scalar type in core.
ScalarFailure ==
    /\ convResult.some
    /\ convBy = "core"
    /\ ConvName \in IntegerTypes \cup {"bool", "String", "Lit"}
    /\ ~convResult.val.ok

\* the kinds the scalar conversions of core name
ExpectedKinds ==
    { "integer", "boolean (true, false)", "boolean expression", "string literal",
      "literal", "literal expression" }

\* C19: the message of every conversion failure names the expected kind, and
\* the identifier of the value being bound whenever that value has one:
\* expected <kind> (<identifier>); the identifier is left out only when the
\* value has none.
C19_FailureNamesKindAndIdentifier ==
    ScalarFailure =>
        LET msg == convResult.val.err[1].msg
        IN  IF identifier(convValue).some
            THEN /\ Len(msg) = 3
                 /\ msg[1] = "expected"
                 /\ msg[2] \in ExpectedKinds
                 /\ msg[3] = identifier(convValue).val
            ELSE /\ Len(msg) = 2
                 /\ msg[1] \in ExpectedKinds
                 /\ msg[2] = "expected"

\* A value was converted to bool, by core or by internals.
BoolCase == convResult.some /\ ConvName = "bool"

\* the kinds the bool converters name
BoolKinds ==
    { "boolean (true, false)", "boolean expression",
      "a boolean value (true, false)", "a boolean expression" }

\* C20: an Expr whose right-hand side is a boolean literal converts to the
\* value of that literal, a bare identifier converts to true, and every
\* other shape (a List, a bare literal, an Expr with another right-hand
\* side) is a type error.
C20_BooleanConversion ==
    BoolCase =>
        IF convValue.kind = "Expr" /\ IsLit(convValue.value, "Bool")
        THEN convResult.val = Ok(BoolVal(convValue.value.lit.b))
        ELSE IF convValue.kind = "Ident"
        THEN convResult.val = Ok(BoolVal(TRUE))
        ELSE TypeError(convResult.val, BoolKinds)

\* C20 witness: k = false was converted to false by core.
C20_Witness ==
    /\ BoolCase
    /\ convBy = "core"
    /\ convValue = Expr("k", Lit(LitBool(FALSE)))
    /\ convResult = Some(Ok(BoolVal(FALSE)))

\* A value was converted to a float type by core.
FloatCase ==
    /\ convResult.some
    /\ convBy = "core"
    /\ ConvName \in FloatTypes

\* the value given to the float type is a number literal, bare or as the
\* right-hand side of an Expr
NumberLiteral ==
    \/ convValue.kind = "Lit" /\ convValue.lit.kind \in {"Int", "Float"}
    \/ convValue.kind = "Expr" /\ convValue.value.kind = "Lit"
          /\ convValue.value.lit.kind \in {"Int", "Float"}

\* the float f equals the integer with that sign and those digits
EqualsInteger(f, neg, digits) ==
    /\ f.whole = digits
    /\ f.frac = << >>
    /\ f.neg = neg \/ digits = <<0>>

\* the numbers with digits a and b differ by one at most
Adjacent(a, b) == a = b \/ a = DigitsSucc(b) \/ b = DigitsSucc(a)

\* C21 as stated: a float type accepts integer and float literals, bare or as
\* the right-hand side of an Expr; an integer literal converts to the float
\* equal to that integer; every shape that is not a number is a type error.
C21_Original ==
    FloatCase =>
        IF NumberLiteral
        THEN /\ convResult.val.ok
             /\ ConvLit.kind = "Int" =>
                   EqualsInteger(convResult.val.val, ConvLit.neg, ConvLit.digits)
        ELSE TypeError(convResult.val, {"decimal"})

\* C21 amended: a float type accepts integer and float literals, bare or as
\* the right-hand side of an Expr; an integer literal converts to the float
\* nearest to that integer, which is equal to it for every integer of
\* magnitude up to 2^53 (f64) or 2^24 (f32) and an even neighbour otherwise;
\* every shape that is not a number is a type error.
C21_IntegerToNearestFloat ==
    FloatCase =>
        IF NumberLiteral
        THEN /\ convResult.val.ok
             /\ ConvLit.kind = "Int" =>
                   IF DigitsLeq(ConvLit.digits, ExactLimit(ConvName))
                   THEN EqualsInteger(convResult.val.val, ConvLit.neg, ConvLit.digits)
                   ELSE /\ convResult.val.val.neg = ConvLit.neg
                        /\ convResult.val.val.frac = << >>
                        /\ Last(convResult.val.val.whole) % 2 = 0
                        /\ Adjacent(convResult.val.val.whole, ConvLit.digits)
        ELSE TypeError(convResult.val, {"decimal"})

\* C21 witness: f64 was given n = 1234 and holds 1234.0.
C21_Witness ==
    /\ FloatCase
    /\ ConvName = "f64"
    /\ convValue = Expr("n", Lit(LitInt(FALSE, <<1, 2, 3, 4>>)))
    /\ convResult = Some(Ok(FloatVal(FALSE, <<1, 2, 3, 4>>, << >>)))

(***************************************************************************)
(* More properties of expand (specification SpecExpand).                   *)
(***************************************************************************)
RECURSIVE AgreeFromLast(_, _)
\* the paths a and b agree on every segment they both have, counted from
\* their last ones
AgreeFromLast(a, b) ==
    \/ a = << >>
    \/ b = << >>
    \/ /\ Last(a) = Last(b)
       /\ AgreeFromLast(SubSeq(a, 1, Len(a) - 1), SubSeq(b, 1, Len(b) - 1))

\* the type counts as optional, as boolean
Optional(ty) == ty.kind = "Path" /\ AgreeFromLast(ty.segments, <<"std", "option", "Option">>)

Boolean(ty) == ty.kind = "Path" /\ AgreeFromLast(ty.segments, <<"std", "primitive", "bool">>)

\* the types of the declarations that are to count as optional, as boolean
OptionalTypes ==
    { TyPath(<<"Option">>, <<TyPath(<<"String">>, << >>)>>),
      TyPath(<<"Option">>, <<TyPath(<<"bool">>, << >>)>>),
      TyPath(<<"option", "Option">>, <<TyPath(<<"String">>, << >>)>>),
      TyPath(<<"std", "option", "Option">>, <<TyPath(<<"String">>, << >>)>>) }

BooleanTypes ==
    { TyPath(<<"bool">>, << >>), TyPath(<<"primitive", "bool">>, << >>),
      TyPath(<<"std", "primitive", "bool">>, << >>) }

\* A record with named fields was expanded.
NamedCase ==
    /\ ExpandCase
    /\ declaration.val.data = "Struct"
    /\ declaration.val.fields.kind = "Named"

\* C22: a field is treated as optional exactly when the path of its type
\* agrees with std::option::Option on every segment compared from the last
\* one (Option<T>, option::Option<T>, std::option::Option<T>; not an alias,
\* not foo::Option<T>), as boolean likewise with std::primitive::bool,
\* optional first (Option<bool> is optional), and a required-key check is
\* generated exactly for the fields that are neither.
C22_FieldClassification ==
    NamedCase =>
        LET named == declaration.val.fields.named
            code == expanded.val.val
        IN  /\ \A k \in 1..Len(named) :
                  LET ty == named[k].ty
                  IN  /\ Optional(ty) <=> ty \in OptionalTypes
                      /\ Boolean(ty) <=> ty \in BooleanTypes
                      /\ code.variables[k].ty = "#ty" <=> Optional(ty)
                      /\ code.struct_fields[k].value =
                            IF Optional(ty) THEN "#ident"
                            ELSE IF Boolean(ty) THEN "#ident.unwrap_or_default()"
                            ELSE "#ident.expect()"
            /\ code.required_checks =
                  FieldStrs(SelectSeq(named,
                      LAMBDA field : ~Optional(field.ty) /\ ~Boolean(field.ty)))

\* C22 witness: a record with a field of type foo::Option<String> was
\* expanded, and a required-key check was generated for the field.
C22_Witness ==
    /\ NamedCase
    /\ \E k \in 1..Len(declaration.val.fields.named) :
          /\ declaration.val.fields.named[k].ty =
                TyPath(<<"foo", "Option">>, <<TyPath(<<"String">>, << >>)>>)
          /\ expanded.val.val.required_checks # << >>
          /\ expanded.val.val.struct_fields[k].value = "#ident.expect()"

(***************************************************************************)
(* More properties of from_values (specifications Spec and SpecScan).      *)
(***************************************************************************)
\* the step takes one more value, whose identifier names the field f
TakesValueFor(f) ==
    /\ Len(input') = Len(input) + 1
    /\ identifier(input'[Len(input')]) = Some(f)

\* C23: a slot that is filled keeps its value in every later step of the
\* invocation, and a value taken for a field whose slot is filled changes
\* nothing but the list of errors, which grows by one.
C23_FilledSlotKeepsValue ==
    [][\A f \in FieldNames :
          slots[f].some =>
              /\ slots'[f] = slots[f]
              /\ TakesValueFor(f) =>
                    /\ slots' = slots
                    /\ pc' = pc
                    /\ result' = result
                    /\ Len(errors') = Len(errors) + 1
                    /\ SubSeq(errors', 1, Len(errors)) = errors]_vars

\* C23 witness: count = 5 filled the slot, count = 6 and count = "x" came
\* after it, and the slot still holds 5 when from_values returns.
C23_Witness ==
    /\ pc = "done"
    /\ Len(input) >= 3
    /\ input[1] = Expr("count", Lit(LitInt(FALSE, <<5>>)))
    /\ input[2] = Expr("count", Lit(LitInt(FALSE, <<6>>)))
    /\ input[3] = Expr("count", Lit(LitStr("x")))
    /\ slots["count"] = Some(IntVal(FALSE, <<5>>))

RECURSIVE SpanBefore(_, _)
\* the location a comes before the location b in the source
SpanBefore(a, b) ==
    /\ b # << >>
    /\ \/ a = << >>
       \/ Head(a) < Head(b)
       \/ Head(a) = Head(b) /\ SpanBefore(Tail(a), Tail(b))

\* the place of the field named id in the declaration
DeclarationIndex(id) == CHOOSE i \in 1..Len(Fields) : Fields[i].ident = id

\* the values of the inputs that name a field, and whether each converts
\* to the type of that field
FieldValues ==
    {v \in ValueUniverse : identifier(v).some /\ identifier(v).val \in FieldNames}

Converts ==
    [v \in FieldValues |->
        ParseValue(SlotType(FieldOf(identifier(v).val)), v, <<0>>).ok]

\* the values taken that filled no slot
Unstored ==
    {j \in 1..Len(input) :
        \/ input[j] \notin FieldValues
        \/ ~Converts[input[j]]
        \/ \E i \in 1..(j - 1) :
              identifier(input[i]) = identifier(input[j]) /\ Converts[input[i]]}

\* C24: the entries of the error from_values returns are the diagnostics of
\* the scan, in the source order of the values (and of the elements inside
\* a value), followed by the required-key diagnostics in the order the
\* fields are declared; the first entry is a required-key diagnostic only
\* if the scan recorded nothing.
C24_DiagnosticOrder ==
    (pc = "done" /\ ~result.val.ok) =>
        LET entries == result.val.err
            required == {k \in 1..Len(entries) :
                            entries[k].msg[1] = "required key not found"}
            scan == (1..Len(entries)) \ required
        IN  /\ \A a \in scan : \A b \in required : a < b
            /\ \A a \in scan : \A b \in scan :
                  a < b => SpanBefore(entries[a].span, entries[b].span)
            /\ {entries[k].span[1] : k \in scan} = Unstored
            /\ \A a \in required : \A b \in required :
                  a < b => DeclarationIndex(entries[a].msg[2])
                              < DeclarationIndex(entries[b].msg[2])
            /\ {entries[k].msg[2] : k \in required}
                  = {f \in RequiredNames : ~slots[f].some}
            /\ entries[1].msg[1] = "required key not found" <=> Unstored = {}

\* C24 witness: zzz, a list of tags with two bad elements and count = "x"
\* were taken; the error returned holds their four diagnostics in that
\* order, then the required-key diagnostics of count, name and tags.
C24_Witness ==
    /\ pc = "done"
    /\ Len(input) = 3
    /\ input[1] = Ident("zzz")
    /\ identifier(input[2]) = Some("tags")
    /\ input[3] = Expr("count", Lit(LitStr("x")))
    /\ ~result.val.ok
    /\ Len(result.val.err) = 7
    /\ [k \in 1..4 |-> result.val.err[k].span] = << <<1>>, <<2, 1>>, <<2, 3>>, <<3, 1>> >>
    /\ [k \in 5..7 |-> result.val.err[k].msg[2]] = [k \in 5..7 |-> Fields[k - 4].ident]

\* the occurrences of the identifier of the j-th value before it that
\* converted
EarlierConverted(j) ==
    {i \in 1..(j - 1) :
        identifier(input[i]) = identifier(input[j]) /\ Converts[input[i]]}

\* the duplicate-entry diagnostics recorded at the j-th value
DuplicatesAt(j) ==
    {k \in 1..Len(errors) :
        errors[k] = NewError(<<j>>, <<"duplicate entry for", identifier(input[j]).val>>)}

\* C25: for a value that names a field, "duplicate entry" is recorded at it
\* exactly when an earlier value of the same identifier converted; when
\* every earlier one failed the value is converted itself: it fills the slot
\* if it converts, and its conversion failure is recorded if it does not.
C25_DuplicateIffEarlierConverted ==
    \A j \in 1..Len(input) :
        (identifier(input[j]).some /\ identifier(input[j]).val \in FieldNames) =>
            LET f == identifier(input[j]).val
                duplicates == DuplicatesAt(j)
                earlier == EarlierConverted(j)
                own == DiagnosticsFor(j) \ duplicates
            IN  /\ duplicates # {} <=> earlier # {}
                /\ Cardinality(duplicates) <= 1
                /\ earlier # {} => own = {}
                /\ earlier = {} =>
                      IF Converts[input[j]]
                      THEN slots[f] = Some(Conversion(j).val) /\ own = {}
                      ELSE /\ Cardinality(own) = 1
                           /\ \A k \in own : errors[k] = Conversion(j).err

\* C25 witness: count = "x" failed, count = 5 after it was converted and
\* filled the slot, and count = 6 after that got "duplicate entry".
C25_Witness ==
    /\ Len(input) = 3
    /\ input[1] = Expr("count", Lit(LitStr("x")))
    /\ input[2] = Expr("count", Lit(LitInt(FALSE, <<5>>)))
    /\ input[3] = Expr("count", Lit(LitInt(FALSE, <<6>>)))
    /\ slots["count"] = Some(IntVal(FALSE, <<5>>))
    /\ DuplicatesAt(2) = {}
    /\ DuplicatesAt(3) # {}

\* the slots that are filled
Filled(slts) == {f \in FieldNames : slts[f].some}

\* the error e is one the scan pushes for the value v taken as the j-th
ScanError(e, v, j) ==
    LET id == identifier(v)
    IN  IF ~id.some THEN e = NewError(<<j>>, <<"expected an identifier">>)
        ELSE IF id.val \notin FieldNames
        THEN e[1].span = <<j>> /\ e[1].msg[1] = "unrecognized key" /\ Len(e) = 1
        ELSE \/ e = NewError(<<j>>, <<"duplicate entry for", id.val>>)
             \/ LET r == ParseValue(SlotType(FieldOf(id.val)), v, <<j>>)
                IN  ~r.ok /\ e = r.err

\* C26: every top-level value taken has exactly one effect: it fills exactly
\* one slot that was empty and leaves the error list as it is, or it leaves
\* every slot as it is and appends exactly one error to the error list (one
\* error whatever the number of messages it holds); so during and after the
\* scan the filled slots and the errors of the list are as many as the
\* values taken.
C26_OneEffectPerValue ==
    /\ [](pc = "scan" => Cardinality(Filled(slots)) + Len(errors) = Len(input))
    /\ [][Len(input') = Len(input) + 1 =>
             LET j == Len(input')
                 v == input'[j]
             IN  \/ /\ errors' = errors
                    /\ \E f \in FieldNames :
                          /\ ~slots[f].some
                          /\ slots'[f].some
                          /\ identifier(v) = Some(f)
                          /\ \A g \in FieldNames \ {f} : slots'[g] = slots[g]
                 \/ /\ slots' = slots
                    /\ Len(errors') = Len(errors) + 1
                    /\ SubSeq(errors', 1, Len(errors)) = errors
                    /\ ScanError(errors'[j - Cardinality(Filled(slots))], v, j)]_vars

\* C26 witness: after four values two slots are filled and two errors are
\* in the list, one of them a conversion failure holding two messages.
C26_Witness ==
    /\ pc = "scan"
    /\ Len(input) = 4
    /\ Cardinality(Filled(slots)) = 2
    /\ Len(errors) = 2
    /\ \E k \in 1..2 : Len(errors[k]) = 2

\* from_values reached Ok(Self { #struct_fields })
Constructed == pc = "done" /\ result.val.ok

\* C27: the expect on a required field never panics: whenever the record is
\* constructed the error list is empty and the slot of every required field
\* is filled, so that the record holds the value of the slot.
C27_ExpectNeverPanics ==
    Constructed =>
        /\ errors = << >>
        /\ \A f \in RequiredNames :
              /\ slots[f].some
              /\ result.val.val[f] = slots[f].val
        /\ \A f \in FieldNames : result.val.val[f] # [panic |-> TRUE]

\* C27 witness: the record was constructed from values for the three
\* required fields alone.
C27_Witness ==
    /\ Constructed
    /\ Len(input) = 3
    /\ Filled(slots) = RequiredNames

(***************************************************************************)
(* from_values of the Widget record on the same values in two orders:      *)
(* once as given, once permuted.                                           *)
(***************************************************************************)
PermuteUniverse ==
    { Expr("count", Lit(LitInt(FALSE, <<5>>))),
      Expr("count", Lit(LitStr("x"))),
      Expr("name", Lit(LitStr("widget"))),
      List("tags", <<Lit(LitStr("a")), Lit(LitStr("b"))>>),
      List("tags", <<Lit(LitInt(FALSE, <<5>>)), Lit(LitStr("a")),
                     Lit(LitInt(FALSE, <<6>>))>>),
      Ident("enabled"),
      Ident("zzz"),
      Lit(LitInt(FALSE, <<7>>)) }

\* the orders (permutations of 1..n) n values can be given in
Orders ==
    [n \in 0..MaxPermuted |->
        {p \in [1..n -> 1..n] : \A i \in 1..n : \A j \in 1..n : i # j => p[i] # p[j]}]

\* the identifiers of the values are pairwise distinct
DistinctIdentifiers(values) ==
    \A i \in 1..Len(values) : \A j \in 1..Len(values) :
        (i # j /\ identifier(values[i]).some)
            => identifier(values[i]) # identifier(values[j])

\* the values in the order p
Permuted(values, p) == [i \in 1..Len(values) |-> values[p[i]]]

InitPermute ==
    /\ permValues \in {vs \in BoundedSeq(PermuteUniverse, MaxPermuted) :
                          DistinctIdentifiers(vs)}
    /\ permOrder \in Orders[Len(permValues)]
    /\ permBound = None
    /\ permRebound = None
    /\ IdleBind
    /\ IdleCombine
    /\ IdleDym
    /\ IdleParse
    /\ IdleConvert
    /\ IdleExpand
    /\ IdleExtract

\* Widget::from_values(values)
Bind ==
    /\ ~permBound.some
    /\ permBound' = Some(from_values(Fields, permValues, << >>))
    /\ UNCHANGED <<permValues, permOrder, permRebound, bindVars, combineVars,
                   dymVars, parseVars, convertVars, expandVars, extractVars>>

\* Widget::from_values(values), the values in the other order
Rebind ==
    /\ ~permRebound.some
    /\ permRebound' = Some(from_values(Fields, Permuted(permValues, permOrder), << >>))
    /\ UNCHANGED <<permValues, permOrder, permBound, bindVars, combineVars,
                   dymVars, parseVars, convertVars, expandVars, extractVars>>

NextPermute == Bind \/ Rebind

SpecPermute == InitPermute /\ [][NextPermute]_vars

(***************************************************************************)
(* Properties of from_values under permutation (specification              *)
(* SpecPermute).                                                           *)
(***************************************************************************)
\* the entries of a failure of from_values on the permuted values, each at
\* the location its value has in the order given first
Relocated(entries, p) ==
    [k \in 1..Len(entries) |->
        [span |-> IF Head(entries[k].span) \in DOMAIN p
                  THEN <<p[Head(entries[k].span)]>> \o Tail(entries[k].span)
                  ELSE entries[k].span,
         msg |-> entries[k].msg]]

\* the messages of the entries
Messages(entries) == [k \in 1..Len(entries) |-> entries[k].msg]

\* the entries that are not required-key diagnostics
ScanEntries(entries) ==
    SelectSeq(entries, LAMBDA e : e.msg[1] # "required key not found")

\* a and b hold the same elements, each as often
SameMultiset(a, b) ==
    /\ Len(a) = Len(b)
    /\ \A k \in 1..Len(a) :
          Cardinality({i \in 1..Len(a) : a[i] = a[k]})
              = Cardinality({i \in 1..Len(b) : b[i] = a[k]})

\* from_values has returned for both orders
BothBound == permBound.some /\ permRebound.some

\* C28 as stated: for values with pairwise distinct identifiers every
\* permutation gives the same kind of outcome, the same record on success
\* and the same multiset of diagnostics (location and message, the location
\* being that of the value the diagnostic was recorded at) on failure.
C28_Original ==
    BothBound =>
        LET r == permBound.val
            q == permRebound.val
        IN  /\ q.ok = r.ok
            /\ r.ok => q.val = r.val
            /\ ~r.ok => SameMultiset(r.err, Relocated(q.err, permOrder))

\* C28 amended: for values with pairwise distinct identifiers every
\* permutation gives the same kind of outcome, the same record on success,
\* and on failure the same multiset of messages and the same multiset of
\* diagnostics of the scan (location and message); the required-key
\* diagnostics are at the value that comes first in the order given.
C28_OrderInsensitiveButFirstLocation ==
    BothBound =>
        LET r == permBound.val
            q == permRebound.val
            first == IF permValues = << >> THEN <<0>> ELSE <<permOrder[1]>>
        IN  /\ q.ok = r.ok
            /\ r.ok => q.val = r.val
            /\ ~r.ok =>
                  /\ SameMultiset(Messages(r.err), Messages(q.err))
                  /\ SameMultiset(ScanEntries(r.err),
                                  ScanEntries(Relocated(q.err, permOrder)))
                  /\ \A k \in 1..Len(q.err) :
                        q.err[k].msg[1] = "required key not found"
                            => Relocated(q.err, permOrder)[k].span = first

\* C28 witness: zzz, count = 5 was bound in that order and the other way
\* round; both failed with the same messages, and the required-key
\* diagnostic of name is at zzz the first time and at count = 5 the second.
C28_Witness ==
    /\ BothBound
    /\ permValues = <<Ident("zzz"), Expr("count", Lit(LitInt(FALSE, <<5>>)))>>
    /\ permOrder = <<2, 1>>
    /\ ~permBound.val.ok
    /\ \E k \in 1..Len(permBound.val.err) :
          permBound.val.err[k]
              = [span |-> <<1>>, msg |-> <<"required key not found", "name">>]
    /\ \E k \in 1..Len(permRebound.val.err) :
          Relocated(permRebound.val.err, permOrder)[k]
              = [span |-> <<2>>, msg |-> <<"required key not found", "name">>]

\* C28 witness of a success: count, name and tags were given in one order
\* and in the reverse order, and the same record was returned.
C28_WitnessRecord ==
    /\ BothBound
    /\ Len(permValues) = 3
    /\ permOrder = <<3, 2, 1>>
    /\ permBound.val.ok
    /\ permRebound.val = permBound.val

(***************************************************************************)
(* core/src/attribute.rs: the provided methods of the Attribute trait, for *)
(* the record Req.  An attribute is its path and its meta; the location of *)
(* the i-th attribute of the vector is <<i>>.                              *)
(***************************************************************************)
\* syn::Path of an attribute
AttrPath(leading, segments) == [leading |-> leading, segments |-> segments]

MetaList(stream) == [kind |-> "List", tokens |-> stream]

MetaNameValue == [kind |-> "NameValue"]

MetaPath == [kind |-> "Path"]

\* syn::Path::is_ident: no leading colon, one segment, and that segment is s
is_ident(path, s) ==
    /\ ~path.leading
    /\ Len(path.segments) = 1
    /\ path.segments[1] = s

\* Attribute::from_input, given what input.parse() returned: its error, at
\* the token the parser gave up at, or what from_values returns on the Values
from_input(name, values, base) ==
    IF ~values.ok
    THEN Err(NewError(ChildSpan(base, values.pos), <<values.msg>>))
    ELSE from_values(RecordFields(name), values.val, base)

\* Attribute::from_tokens: from_input on the stream, parsed as Values
from_tokens(name, stream, base) ==
    from_input(name, parse_terminated(stream, 1, << >>), base)

\* Attribute::from_meta
from_meta(name, meta, base) ==
    CASE meta.kind = "List" -> from_tokens(name, meta.tokens, base)
      [] meta.kind = "NameValue" ->
            Err(NewError(CallSite, <<"meta name values are not supported">>))
      [] meta.kind = "Path" ->
            Err(NewError(CallSite, <<"meta paths are not supported">>))

\* the filter_map of extract_from_attributes: what from_meta returned for
\* the attributes whose path is the given one, in their order
FilterMapped(name, attrs, s) ==
    LET matching == SelectSeq([i \in 1..Len(attrs) |-> i],
                              LAMBDA i : is_ident(attrs[i].path, s))
    IN  [k \in 1..Len(matching) |->
            from_meta(name, attrs[matching[k]].meta, <<matching[k]>>)]

\* the records collected and the errors pushed, given what from_meta returned
Collected(outcomes) ==
    LET succeeded == SelectSeq(outcomes, LAMBDA o : o.ok)
        failed == SelectSeq(outcomes, LAMBDA o : ~o.ok)
    IN  [parsed |-> [k \in 1..Len(succeeded) |-> succeeded[k].val],
         errors |-> [k \in 1..Len(failed) |-> failed[k].err]]

\* errors.combine(): return Err(error), or Ok(parsed)
Extracted(collected) ==
    LET error == combine(collected.errors)
    IN  IF error.some THEN Err(error.val) ELSE Ok(collected.parsed)

\* extract_from_attributes, were only the attributes that parsed removed.
extract_from_attributes_keepFailed(name, attrs, s) ==
    [attributes |->
        SelectSeq([i \in 1..Len(attrs) |-> [i |-> i, attr |-> attrs[i]]],
                  LAMBDA a : ~(is_ident(a.attr.path, s)
                                 /\ from_meta(name, a.attr.meta, <<a.i>>).ok)),
     result |-> Extracted(Collected(FilterMapped(name, attrs, s)))]

\* Attribute::extract_from_attributes(attributes, path): the vector after
\* retain, and what is returned
extract_from_attributes(name, attrs, s) ==
    [attributes |-> SelectSeq(attrs, LAMBDA attr : ~is_ident(attr.path, s)),
     result |-> Extracted(Collected(FilterMapped(name, attrs, s)))]

\* Token streams of attributes of the record Req { count: u32, flag: bool }.
Int5 == TLit(LitInt(FALSE, <<5>>))

AttributeStreams ==
    { <<TIdent("count"), TPunct("="), Int5>>,
      <<TIdent("count"), TPunct("="), Int5, TPunct(","), TIdent("flag")>>,
      <<TIdent("flag")>>,
      <<TPunct("#")>>,
      << >> }

AttributeUniverse ==
    { [path |-> AttrPath(FALSE, <<"req">>), meta |-> MetaList(stream)] :
          stream \in AttributeStreams }
      \cup
    { [path |-> AttrPath(FALSE, <<"req">>), meta |-> MetaNameValue],
      [path |-> AttrPath(FALSE, <<"req">>), meta |-> MetaPath],
      [path |-> AttrPath(FALSE, <<"doc">>), meta |-> MetaNameValue],
      [path |-> AttrPath(FALSE, <<"x", "req">>),
       meta |-> MetaList(<<TIdent("count"), TPunct("="), Int5>>)],
      [path |-> AttrPath(TRUE, <<"req">>),
       meta |-> MetaList(<<TIdent("count"), TPunct("="), Int5>>)] }

InitExtract ==
    /\ attrsGiven \in BoundedSeq(AttributeUniverse, MaxAttributes)
    /\ attributes = attrsGiven
    /\ attrPath \in {"req", "doc"}
    /\ extracted = None
    /\ IdleBind
    /\ IdleCombine
    /\ IdleDym
    /\ IdleParse
    /\ IdleConvert
    /\ IdleExpand
    /\ IdlePermute

\* Req::extract_from_attributes(&mut attributes, path)
Extract ==
    /\ ~extracted.some
    /\ LET r == extract_from_attributes("Req", attributes, attrPath)
       IN  /\ attributes' = r.attributes
           /\ extracted' = Some(r.result)
    /\ UNCHANGED <<attrsGiven, attrPath, bindVars, combineVars, dymVars, parseVars,
                   convertVars, expandVars, permuteVars>>

NextExtract == Extract

SpecExtract == InitExtract /\ [][NextExtract]_vars

(***************************************************************************)
(* Properties of extract_from_attributes (specification SpecExtract).      *)
(***************************************************************************)
\* the places of the attributes given whose path is the path argument
Matching ==
    {i \in 1..Len(attrsGiven) :
        attrsGiven[i].path = AttrPath(FALSE, <<attrPath>>)}

RECURSIVE Picked(_, _, _)
\* the elements of seq at the places in S from i on, in their order
Picked(seq, S, i) ==
    IF i > Len(seq) THEN << >>
    ELSE (IF i \in S THEN <<seq[i]>> ELSE << >>) \o Picked(seq, S, i + 1)

\* what parsing the i-th attribute given yields
AttributeOutcome ==
    [i \in 1..Len(attrsGiven) |-> from_meta("Req", attrsGiven[i].meta, <<i>>)]

\* C29: extract_from_attributes removes every attribute whose path is the
\* path argument and leaves the others in their order, whether or not
\* parsing succeeded; it returns the parsed records, in the order of their
\* attributes, only if every such attribute parsed, and otherwise the
\* combination of the errors of all of them, in their order, a name-value
\* and a bare-path attribute counting as errors.
C29_ExtractFromAttributes ==
    extracted.some =>
        LET others == (1..Len(attrsGiven)) \ Matching
            failed == {i \in Matching : ~AttributeOutcome[i].ok}
            outcomes == Picked(AttributeOutcome, Matching, 1)
            failures == Picked(AttributeOutcome, failed, 1)
        IN  /\ attributes = Picked(attrsGiven, others, 1)
            /\ \A i \in Matching :
                  attrsGiven[i].meta.kind # "List" =>
                      /\ i \in failed
                      /\ AttributeOutcome[i].err
                            = NewError(CallSite,
                                 IF attrsGiven[i].meta.kind = "NameValue"
                                 THEN <<"meta name values are not supported">>
                                 ELSE <<"meta paths are not supported">>)
            /\ extracted.val.ok <=> failed = {}
            /\ failed = {} =>
                  extracted.val.val = [k \in 1..Len(outcomes) |-> outcomes[k].val]
            /\ failed # {} =>
                  extracted.val.err
                      = Concat([k \in 1..Len(failures) |-> failures[k].err])

\* C29 witness: three attributes were given, a doc attribute between two req
\* attributes of which the first parsed and the second, a bare path, did
\* not; only the doc attribute is left, and the call failed.
C29_Witness ==
    /\ extracted.some
    /\ attrPath = "req"
    /\ Len(attrsGiven) = 3
    /\ Matching = {1, 3}
    /\ AttributeOutcome[1].ok
    /\ attrsGiven[3].meta = MetaPath
    /\ attributes = <<attrsGiven[2]>>
    /\ extracted.val = Err(NewError(CallSite, <<"meta paths are not supported">>))

\* C29 witness of a success: two req attributes parsed and their records
\* were returned in the order of the attributes.
C29_WitnessRecords ==
    /\ extracted.some
    /\ attrPath = "req"
    /\ Len(attrsGiven) = 3
    /\ Matching = {1, 3}
    /\ extracted.val.ok
    /\ Len(extracted.val.val) = 2
    /\ extracted.val.val[1] # extracted.val.val[2]
    /\ extracted.val.val[1] = AttributeOutcome[1].val

(***************************************************************************)
(* More properties of the conversions (specification SpecConvert).         *)
(***************************************************************************)
\* A List was bound to the record Tagged, whose fields are of type Ident
\* and Option<Ident>.
TaggedCase ==
    /\ convResult.some
    /\ convBy = "core"
    /\ ConvName = "Tagged"
    /\ convValue.kind = "List"

\* the places of the values that name the field f
ValuesNaming(f) ==
    {j \in 1..Len(convValue.values) : identifier(convValue.values[j]) = Some(f)}

\* C30: a field of type Ident (or Option<Ident>) bound by from_values is
\* filled by a bare Identifier value only, which is the name of the field
\* itself: the record holds no other identifier, the field is filled exactly
\* when the bare name of the field was given, and a value of another shape
\* for the field makes the binding fail with a diagnostic at that value.
C30_IdentFieldHoldsOwnName ==
    TaggedCase =>
        LET r == convResult.val
            vs == convValue.values
        IN  /\ r.ok =>
                  /\ r.val.kind = IdentVal("kind")
                  /\ r.val.some_ident \in {None, Some(IdentVal("some_ident"))}
                  /\ r.val.some_ident.some <=> \E j \in 1..Len(vs) : vs[j] = Ident("some_ident")
                  /\ \E j \in 1..Len(vs) : vs[j] = Ident("kind")
            /\ \A f \in {"kind", "some_ident"} :
                  \A j \in ValuesNaming(f) :
                      vs[j].kind # "Ident" =>
                          /\ ~r.ok
                          /\ \E k \in 1..Len(r.err) :
                                /\ r.err[k].span = ChildSpan(ConvSpan, j)
                                /\ \/ r.err[k].msg = <<"expected", "identifier", f>>
                                   \/ /\ r.err[k].msg = <<"duplicate entry for", f>>
                                      /\ \E i \in 1..(j - 1) : vs[i] = Ident(f)

\* C30 witness: tagged(some_ident, kind) was bound, and each of the two fields
\* holds its own name.
C30_Witness ==
    /\ TaggedCase
    /\ convValue.values = <<Ident("some_ident"), Ident("kind")>>
    /\ convResult.val.ok
    /\ convResult.val.val.kind = IdentVal("kind")
    /\ convResult.val.val.some_ident = Some(IdentVal("some_ident"))

\* C30 witness of a refusal: tagged(kind = other) failed.
C30_WitnessRefused ==
    /\ TaggedCase
    /\ convValue.values = <<Expr("kind", Ident("other"))>>
    /\ ~convResult.val.ok

====
